---- MODULE Spec2Model ----
(***************************************************************************)
(* Client synchronisation engine of the SalaTrack board                    *)
(* (PageClientBoard): configuration loader, session/role manager and the   *)
(* mutation handlers of the Board component, as state machines.            *)
(*                                                                         *)
(* One TLA+ step is one run-to-completion turn of the JavaScript event     *)
(* loop: the synchronous part of a handler up to its next await of a       *)
(* remote call or timer, or the continuation that runs when such a call    *)
(* answers (with the microtasks it drains).                                *)
(***************************************************************************)
EXTENDS Integers, Sequences, FiniteSets, TLC

VARIABLES
  \* ---- PageClientBoard: configuration of the centre ----
  centerSlug,        \* the slug the component is rendered for
  loadingCenterRef,  \* single-flight marker: 0 = null, else index into loads
  loads,             \* the promises created by loadCenterConfig's inner async function
  callers,           \* the runs of the config effect, each awaiting loadCenterConfig()
  centerId, centerName, rows, procs, openRoomsToday,
  cfgAlerts,         \* alerts raised by the config effect's catch (showErr)
  cfgLog,            \* what the last configuration step did (history)
  \* ---- PageClientBoard: session and role ----
  role, authReady,
  alive,             \* the auth effect's alive flag
  resolutions,       \* handler runs (bootstrap / listener) and the role lookup each awaits
  ladder,            \* the upgradeToEditor run, if any (the variable `upgrading`)
  roleQueries,       \* number of getMyRole calls issued
  authLog,           \* what the last auth step did (history)
  \* ---- Board: items and mutation handlers ----
  readOnly, online, items, store, draftCell, editId,
  alerts,            \* alerts raised by showErr in Board handlers
  tasks,             \* handler runs suspended at an await
  nOps,              \* handler invocations so far
  boardLog,          \* what the last Board step did (history)
  hist,              \* the handler runs so far, one record per invocation (history)
  \* ---- Board: inpatients ----
  inp,               \* the remote inpatients table
  inpSet,            \* per client: inpatientSet (source item ids shown as admitted)
  inpList,           \* per client: inpatients (the rows listed in the modal)
  inFlight,          \* per client: inpatientInFlightRef
  inpTasks,          \* inpatient handler runs and fetches suspended at an await
  nInp,              \* inpatient handler invocations so far
  inpLog,            \* what the last inpatient step did (history)
  timers,            \* saveTimersRef of client 1: the pending patch of each row
  debLog,            \* schedule and timer events of client 1 so far (history)
  \* ---- Board: the sync effect ----
  weekStart,         \* the Monday of the visible week
  insts,             \* the instances of the sync effect so far: alive flag, poll, listeners
  subs,              \* the change-notification subscriptions created so far
  unsubRef,          \* the subscription unsubRef.current disposes (0: null)
  rejoinBusyRef,     \* rejoinBusyRef.current
  busyTimer,         \* the timer that clears rejoinBusyRef is pending
  runs,              \* rejoin runs in progress
  fetches,           \* listWeek queries in flight
  mut,               \* the toggle of the week-aware Board awaiting its rpc
  itemsFrom,         \* instance and week of the snapshot last assigned to items (history)
  nSync,             \* triggers so far
  syncLog,           \* what the last sync step did (history)
  \* ---- module-level helpers: showErr and retry ----
  now,               \* Date.now(), in ms since the page was loaded at LoadedAt
  lastNetWarnAt,     \* let lastNetWarnAt: when showErr last logged a transient error
  errLog,            \* the showErr calls so far and what each did (history)
  retryRun           \* the call of retry in progress or just ended

cfgVars   == <<centerSlug, loadingCenterRef, loads, callers, centerId, centerName,
               rows, procs, openRoomsToday, cfgAlerts, cfgLog>>
authVars  == <<role, authReady, alive, resolutions, ladder, roleQueries, authLog>>
boardVars == <<readOnly, online, items, store, draftCell, editId, alerts, tasks, nOps,
               boardLog, hist>>
inpVars   == <<inp, inpSet, inpList, inFlight, inpTasks, nInp, inpLog, timers, debLog>>
syncVars  == <<weekStart, insts, subs, unsubRef, rejoinBusyRef, busyTimer, runs, fetches, mut,
               itemsFrom, nSync, syncLog>>
helperVars == <<now, lastNetWarnAt, errLog, retryRun>>
vars      == <<cfgVars, authVars, boardVars, inpVars, syncVars, helperVars>>

(***************************************************************************)
(* Bounds of the model                                                     *)
(***************************************************************************)
MaxCalls  == 3   \* runs of the config effect
MaxEvents == 2   \* auth events delivered to the listener
MaxOps    == 2   \* handler invocations in the specifications of a few handlers
MaxBoardOps == 1 \* handler invocations in the specification of the whole Board

(***************************************************************************)
(* 1. Configuration loader (loadCenterConfig and the config effect)        *)
(***************************************************************************)
Slugs == {"a", "b"}

\* The remote `centers` row of a slug: its id.
CenterIdOf(slug) == "id_" \o slug

\* What the rooms / procedure_types queries may return (active rows only).
RoomResults == {<<>>, <<"A", "B">>}
ProcResults == {<<>>, <<"P">>}
\* room_schedule row of today: "none" (no row) or its open_rooms.
SchedResults == {"none", "one"}

CfgOutcomes == {"ok", "transient", "fatal"}

\* if (loadingCenterRef.current) ...
InFlightNever == FALSE
InFlight == loadingCenterRef # 0

\* finally { loadingCenterRef.current = null }: the marker after the load
\* settled with `status`.
ClearOnSuccessOnly(status) == IF status = "ok" THEN 0 ELSE loadingCenterRef
ClearRef(status) == 0

\* setRows(roomNames.length ? roomNames : ['Sala 1'])
RowsNoFallback(roomNames) == roomNames
RowsOrDefault(roomNames) == IF Len(roomNames) > 0 THEN roomNames ELSE <<"Sala 1">>

\* setProcs(procList.length ? procList : [{ name: 'Coronario', ... }])
ProcsOrDefault(procList) == IF Len(procList) > 0 THEN procList ELSE <<"Coronario">>

\* One run of the config effect for slug s: the cleanup of the previous run
\* (cancelled = true) and the call of loadCenterConfig, which either returns
\* the promise in flight or starts the inner async function (whose first
\* query, centers, is issued at once) and records it in the marker.
RunConfigEffect(s) ==
  LET old    == [i \in DOMAIN callers |-> [callers[i] EXCEPT !.cancelled = TRUE]]
      joined == InFlight
      target == IF joined THEN loadingCenterRef ELSE Len(loads) + 1
  IN  /\ Len(callers) < MaxCalls
      /\ centerSlug' = s
      /\ loads' = IF joined THEN loads
                  ELSE Append(loads, [slug |-> s, stage |-> 1, status |-> "pending",
                                      roomNames |-> <<>>])
      /\ loadingCenterRef' = target
      /\ callers' = Append(old, [slug |-> s, load |-> target, cancelled |-> FALSE,
                                 state |-> "waiting", joined |-> joined])
      /\ cfgLog' = [act |-> "effect", slug |-> s]
      /\ UNCHANGED <<centerId, centerName, rows, procs, openRoomsToday, cfgAlerts>>
      /\ UNCHANGED <<authVars, boardVars, inpVars, syncVars, helperVars>>

\* Mount, or a repeated run of the effect for the same slug (StrictMode).
ConfigEffect == RunConfigEffect(centerSlug)

\* The slug prop changes: loadCenterConfig is re-created and the effect re-runs.
SlugChange(s) ==
  /\ Len(callers) > 0
  /\ s # centerSlug
  /\ RunConfigEffect(s)

\* The inner async function of load i settles with `status`: the owner's
\* finally clears the marker, and every effect run awaiting this promise
\* resumes; a rejected one that is not cancelled alerts unless the error is
\* transient.
Settle(i, status) ==
  /\ loads' = [loads EXCEPT ![i].status = status]
  /\ loadingCenterRef' = ClearRef(status)
  /\ callers' = [c \in DOMAIN callers |->
                   IF callers[c].load = i /\ callers[c].state = "waiting"
                   THEN [callers[c] EXCEPT !.state = IF status = "ok" THEN "resolved"
                                                     ELSE "rejected"]
                   ELSE callers[c]]
  /\ cfgAlerts' = IF status = "fatal"
                  THEN cfgAlerts + Cardinality({c \in DOMAIN callers :
                          /\ callers[c].load = i
                          /\ callers[c].state = "waiting"
                          /\ ~callers[c].cancelled})
                  ELSE cfgAlerts

Pending(i, k) == loads[i].status = "pending" /\ loads[i].stage = k

\* The centers query answers. A missing centre is thrown as a plain Error.
CenterResponse(i, out) ==
  /\ Pending(i, 1)
  /\ IF out = "ok"
     THEN /\ centerId' = CenterIdOf(loads[i].slug)
          /\ centerName' = loads[i].slug
          /\ loads' = [loads EXCEPT ![i].stage = 2]
          /\ UNCHANGED <<loadingCenterRef, callers, cfgAlerts>>
     ELSE /\ Settle(i, out)
          /\ UNCHANGED <<centerId, centerName>>
  /\ UNCHANGED <<centerSlug, rows, procs, openRoomsToday>>
  /\ cfgLog' = [act |-> IF out = "ok" THEN "applied" ELSE "settled", slug |-> loads[i].slug]
  /\ UNCHANGED <<authVars, boardVars, inpVars, syncVars, helperVars>>

\* The rooms query answers.
RoomsResponse(i, out, roomNames) ==
  /\ Pending(i, 2)
  /\ IF out = "ok"
     THEN /\ rows' = RowsOrDefault(roomNames)
          /\ loads' = [loads EXCEPT ![i].stage = 3, ![i].roomNames = roomNames]
          /\ UNCHANGED <<loadingCenterRef, callers, cfgAlerts>>
     ELSE /\ Settle(i, out)
          /\ UNCHANGED rows
  /\ UNCHANGED <<centerSlug, centerId, centerName, procs, openRoomsToday>>
  /\ cfgLog' = [act |-> IF out = "ok" THEN "applied" ELSE "settled", slug |-> loads[i].slug]
  /\ UNCHANGED <<authVars, boardVars, inpVars, syncVars, helperVars>>

\* The procedure_types query answers.
ProcsResponse(i, out, procList) ==
  /\ Pending(i, 3)
  /\ IF out = "ok"
     THEN /\ procs' = ProcsOrDefault(procList)
          /\ loads' = [loads EXCEPT ![i].stage = 4]
          /\ UNCHANGED <<loadingCenterRef, callers, cfgAlerts>>
     ELSE /\ Settle(i, out)
          /\ UNCHANGED procs
  /\ UNCHANGED <<centerSlug, centerId, centerName, rows, openRoomsToday>>
  /\ cfgLog' = [act |-> IF out = "ok" THEN "applied" ELSE "settled", slug |-> loads[i].slug]
  /\ UNCHANGED <<authVars, boardVars, inpVars, syncVars, helperVars>>

\* The room_schedule query answers; the inner function returns.
SchedResponse(i, out, sched) ==
  /\ Pending(i, 4)
  /\ IF out = "ok"
     THEN /\ openRoomsToday' = IF sched = "none" THEN Len(loads[i].roomNames) ELSE 1
          /\ Settle(i, "ok")
     ELSE /\ Settle(i, out)
          /\ UNCHANGED openRoomsToday
  /\ UNCHANGED <<centerSlug, centerId, centerName, rows, procs>>
  /\ cfgLog' = [act |-> IF out = "ok" THEN "applied" ELSE "settled", slug |-> loads[i].slug]
  /\ UNCHANGED <<authVars, boardVars, inpVars, syncVars, helperVars>>

InitCfg ==
  /\ centerSlug \in Slugs
  /\ loadingCenterRef = 0
  /\ loads = <<>>
  /\ callers = <<>>
  /\ centerId = "null"
  /\ centerName = "SalaTrack"
  /\ rows = <<>>
  /\ procs = <<>>
  /\ openRoomsToday = -1
  /\ cfgAlerts = 0
  /\ cfgLog = [act |-> "init", slug |-> "none"]

NextCfg ==
  \/ ConfigEffect
  \/ \E s \in Slugs : SlugChange(s)
  \/ \E i \in DOMAIN loads, out \in CfgOutcomes : CenterResponse(i, out)
  \/ \E i \in DOMAIN loads, out \in CfgOutcomes, r \in RoomResults : RoomsResponse(i, out, r)
  \/ \E i \in DOMAIN loads, out \in CfgOutcomes, p \in ProcResults : ProcsResponse(i, out, p)
  \/ \E i \in DOMAIN loads, out \in CfgOutcomes, s \in SchedResults : SchedResponse(i, out, s)

(***************************************************************************)
(* 2. Session and role (the auth effect: resolveRole, upgradeToEditor,     *)
(*    the onAuthStateChange listener and the bootstrap)                    *)
(***************************************************************************)
MaxTries == 6   \* const maxTries = 6

\* What getMyRole answers when it answers.
RoleResults == {"editor", "viewer"}
\* How a role lookup under withTimeout(…, 4000) ends: getMyRole's answer, its
\* rejection, or the timeout winning the race.
LookupOutcomes == RoleResults \cup {"error", "timeout"}

\* setRole(sess?.user ? 'viewer' : 'unknown')
OptimisticAlwaysUnknown(hasUser) == "unknown"
OptimisticRole(hasUser) == IF hasUser THEN "viewer" ELSE "unknown"

\* resolveRole's catch: return 'viewer'
FallbackUnknown == "unknown"
FallbackRole == "viewer"

\* The value resolveRole returns for a lookup that ended with `out`.
ResolvedRole(out) == IF out \in RoleResults THEN out ELSE FallbackRole

\* for (let i = 0; i < maxTries && alive; i++)
LadderContinuesOneMore(i) == i <= MaxTries
LadderContinues(i) == i < MaxTries

\* if (r2 === 'editor') { setRole('editor'); return; }
LadderNeverStops(r2) == FALSE
LadderStopsOn(r2) == r2 = "editor"

NoLadder == [active |-> FALSE, pc |-> "none", i |-> 0, queries |-> 0]

\* upgradeToEditor(sess) called with a user: a run in progress is returned
\* as is, otherwise a run starts and sleeps before its first try.
UpgradeToEditor == IF ladder.active THEN ladder
                   ELSE [active |-> TRUE, pc |-> "wait", i |-> 0, queries |-> 0]

\* A handler run that has passed resolveRole's first line.
RunOf(kind, hasUser) == [kind |-> kind, hasUser |-> hasUser,
                         pc |-> IF hasUser THEN "lookup" ELSE "done", out |-> "none"]

\* The common part of the listener and of the bootstrap once the session is
\* known: authReady, the optimistic role, then resolveRole, which returns
\* 'unknown' at once without a user (the handler's continuation then writes
\* it) and otherwise issues getMyRole under the timeout.
HandleSession(kind, hasUser, rest) ==
  /\ authReady' = TRUE
  /\ role' = OptimisticRole(hasUser)
  /\ resolutions' = rest
  /\ roleQueries' = IF hasUser THEN roleQueries + 1 ELSE roleQueries
  /\ authLog' = [act |-> kind, hasUser |-> hasUser, out |-> "none", prevRole |-> role,
                 prevQueries |-> roleQueries, wasAlive |-> TRUE]
  /\ UNCHANGED <<alive, ladder>>

\* supabase.auth.onAuthStateChange fires with a session (or none).
AuthEvent(hasUser) ==
  /\ alive
  /\ Len(resolutions) < MaxEvents + 1
  /\ HandleSession("event", hasUser, Append(resolutions, RunOf("event", hasUser)))
  /\ UNCHANGED <<cfgVars, boardVars, inpVars, syncVars, helperVars>>

\* The bootstrap's getSession() answers.
BootSession(hasUser) ==
  /\ Len(resolutions) > 0
  /\ resolutions[1].pc = "getSession"
  /\ IF alive
     THEN HandleSession("boot", hasUser, [resolutions EXCEPT ![1] = RunOf("boot", hasUser)])
     ELSE /\ resolutions' = [resolutions EXCEPT ![1].pc = "done"]
          /\ authLog' = [act |-> "boot", hasUser |-> hasUser, out |-> "none",
                         prevRole |-> role, prevQueries |-> roleQueries, wasAlive |-> FALSE]
          /\ UNCHANGED <<role, authReady, alive, ladder, roleQueries>>
  /\ UNCHANGED <<cfgVars, boardVars, inpVars, syncVars, helperVars>>

\* The bootstrap's getSession() throws: catch -> unknown.
BootFail ==
  /\ Len(resolutions) > 0
  /\ resolutions[1].pc = "getSession"
  /\ resolutions' = [resolutions EXCEPT ![1].pc = "done"]
  /\ role' = IF alive THEN "unknown" ELSE role
  /\ authReady' = IF alive THEN TRUE ELSE authReady
  /\ authLog' = [act |-> "bootFail", hasUser |-> FALSE, out |-> "error", prevRole |-> role,
                 prevQueries |-> roleQueries, wasAlive |-> alive]
  /\ UNCHANGED <<alive, ladder, roleQueries>>
  /\ UNCHANGED <<cfgVars, boardVars, inpVars, syncVars, helperVars>>

\* The role lookup of handler run n ends with `out`: setRole(nextRole), and
\* the upgrade ladder is started when the run is left at viewer.
LookupDone(n, out) ==
  /\ resolutions[n].pc = "lookup"
  /\ resolutions' = [resolutions EXCEPT ![n].pc = "done", ![n].out = out]
  /\ IF alive
     THEN /\ role' = ResolvedRole(out)
          /\ ladder' = IF resolutions[n].hasUser /\ ResolvedRole(out) = "viewer"
                       THEN UpgradeToEditor ELSE ladder
     ELSE UNCHANGED <<role, ladder>>
  /\ authLog' = [act |-> "lookupDone", hasUser |-> resolutions[n].hasUser, out |-> out,
                 prevRole |-> role, prevQueries |-> roleQueries, wasAlive |-> alive]
  /\ UNCHANGED <<authReady, alive, roleQueries>>
  /\ UNCHANGED <<cfgVars, boardVars, inpVars, syncVars, helperVars>>

\* The ladder's sleep (2200 ms + jitter) ends: it re-queries the role unless
\* the effect was torn down.
LadderWake ==
  /\ ladder.active /\ ladder.pc = "wait"
  /\ IF alive
     THEN /\ ladder' = [ladder EXCEPT !.pc = "lookup", !.queries = @ + 1]
          /\ roleQueries' = roleQueries + 1
     ELSE /\ ladder' = NoLadder
          /\ UNCHANGED roleQueries
  /\ authLog' = [act |-> "ladderWake", hasUser |-> TRUE, out |-> "none", prevRole |-> role,
                 prevQueries |-> roleQueries, wasAlive |-> alive]
  /\ UNCHANGED <<role, authReady, alive, resolutions>>
  /\ UNCHANGED <<cfgVars, boardVars, inpVars, syncVars, helperVars>>

\* The ladder's re-query ends with `out`.
LadderLookupDone(out) ==
  /\ ladder.active /\ ladder.pc = "lookup"
  /\ IF ~alive
     THEN /\ ladder' = NoLadder
          /\ UNCHANGED role
     ELSE IF LadderStopsOn(ResolvedRole(out))
     THEN /\ role' = "editor"
          /\ ladder' = NoLadder
     ELSE /\ UNCHANGED role
          /\ ladder' = IF LadderContinues(ladder.i + 1)
                       THEN [ladder EXCEPT !.pc = "wait", !.i = @ + 1]
                       ELSE NoLadder
  /\ authLog' = [act |-> "ladderDone", hasUser |-> TRUE, out |-> out, prevRole |-> role,
                 prevQueries |-> ladder.queries, wasAlive |-> alive]
  /\ UNCHANGED <<authReady, alive, resolutions, roleQueries>>
  /\ UNCHANGED <<cfgVars, boardVars, inpVars, syncVars, helperVars>>

\* The effect's cleanup: alive = false, the listener is unsubscribed.
AuthTeardown ==
  /\ alive
  /\ alive' = FALSE
  /\ authLog' = [act |-> "teardown", hasUser |-> FALSE, out |-> "none", prevRole |-> role,
                 prevQueries |-> roleQueries, wasAlive |-> TRUE]
  /\ UNCHANGED <<role, authReady, resolutions, ladder, roleQueries>>
  /\ UNCHANGED <<cfgVars, boardVars, inpVars, syncVars, helperVars>>

\* After the auth effect ran: listener registered, bootstrap awaiting getSession().
InitAuth ==
  /\ role = "unknown"
  /\ authReady = FALSE
  /\ alive = TRUE
  /\ resolutions = << [kind |-> "boot", hasUser |-> FALSE, pc |-> "getSession", out |-> "none"] >>
  /\ ladder = NoLadder
  /\ roleQueries = 0
  /\ authLog = [act |-> "init", hasUser |-> FALSE, out |-> "none", prevRole |-> "unknown",
                prevQueries |-> 0, wasAlive |-> TRUE]

NextAuth ==
  \/ \E u \in BOOLEAN : AuthEvent(u)
  \/ \E u \in BOOLEAN : BootSession(u)
  \/ BootFail
  \/ \E n \in DOMAIN resolutions, out \in LookupOutcomes : LookupDone(n, out)
  \/ LadderWake
  \/ \E out \in LookupOutcomes : LadderLookupDone(out)
  \/ AuthTeardown

(***************************************************************************)
(* 3. Board: the items cache, refresh and the mutation handlers            *)
(***************************************************************************)
\* Days are day numbers; day 0 is the Monday of the visible week.
\* Date.getDay(): 0 Sunday, 1 Monday, ... 6 Saturday.
Dow(d) == (d + 1) % 7

\* dayKeys: the five days Monday..Friday of the visible week.
dayKeys == <<0, 1, 2, 3, 4>>

IndexOfOrFirst(seq, x) == IF \E k \in DOMAIN seq : seq[k] = x
                          THEN CHOOSE k \in DOMAIN seq : seq[k] = x
                          ELSE 1
IndexOf(seq, x) == IF \E k \in DOMAIN seq : seq[k] = x
                   THEN CHOOSE k \in DOMAIN seq : seq[k] = x /\ \A j \in 1..(k - 1) : seq[j] # x
                   ELSE 0

\* const effectiveRole = (role === "editor" && readOnly) ? "viewer" : role
EffectiveRole == IF role = "editor" /\ readOnly THEN "viewer" ELSE role

\* if (effectiveRole !== "editor") return;   (onSubmitAdd, onSubmitEdit, doDelete)
GuardAlwaysPasses == TRUE
WriteGuard == EffectiveRole = "editor"

\* doToggleDone: if (role === 'editor')
ToggleByEffectiveRole == EffectiveRole = "editor"
ToggleAsEditor == role = "editor"

\* (x ?? "").trim() on the texts the model enters.
NoTrim(x) == x
Trim(x) == CASE x = " " -> "" [] x = " n" -> "n" [] OTHER -> x

\* The forms the inline editor submits.
FormVals == { [name |-> "", room |-> " ", dx |-> ""],
              [name |-> " n", room |-> "", dx |-> ""],
              [name |-> "", room |-> "", dx |-> "d"] }

NoCell == [day |-> -1, row |-> "none"]

MaxOf(S) == CHOOSE m \in S : \A x \in S : x <= m

\* items.filter((i) => i.day === day && i.row === row)
CellItems(cache, day, row) == {i \in cache : i.day = day /\ i.row = row}

\* cellItems.length > 0 ? Math.max(...cellItems.map((i) => Number(i.ord) || 0)) + 1 : 1
NextOrdByCount(cellItems) == Cardinality(cellItems) + 1
NextOrd(cellItems) ==
  IF Cardinality(cellItems) > 0 THEN MaxOf({i.ord : i \in cellItems}) + 1 ELSE 1

\* The neighbours cell[idx - 1] / cell[idx + 1] of `it` in its cell sorted by
\* ord. Array.sort is stable, so items of equal ord keep the order of the
\* fetched array, which the model leaves open: every order of the ties is
\* allowed.
PrevCandidates(cache, it) ==
  {p \in CellItems(cache, it.day, it.row) :
     /\ p.id # it.id
     /\ p.ord <= it.ord
     /\ ~\E c \in CellItems(cache, it.day, it.row) : p.ord < c.ord /\ c.ord < it.ord}
AnyLaterCandidates(cache, it) ==
  {n \in CellItems(cache, it.day, it.row) : n.id # it.id /\ n.ord >= it.ord}
NextCandidates(cache, it) ==
  {n \in CellItems(cache, it.day, it.row) :
     /\ n.id # it.id
     /\ n.ord >= it.ord
     /\ ~\E c \in CellItems(cache, it.day, it.row) : it.ord < c.ord /\ c.ord < n.ord}
\* idx <= 0 / idx >= cell.length - 1 is possible: nothing sorts strictly
\* before / after `it`.
CanBeFirst(cache, it) == ~\E c \in CellItems(cache, it.day, it.row) : c.ord < it.ord
CanBeLast(cache, it)  == ~\E c \in CellItems(cache, it.day, it.row) : c.ord > it.ord

\* nextBusinessDayISO / prevBusinessDayISO
PrevDayNaive(d) == d - 1
nextBusinessDayISO(d) ==
  IF Dow(d) = 5 THEN d + 3
  ELSE IF Dow(d) = 6 THEN d + 2
  ELSE IF Dow(d) = 0 THEN d + 1
  ELSE d + 1
prevBusinessDayISO(d) ==
  IF Dow(d) = 1 THEN d - 3
  ELSE IF Dow(d) = 0 THEN d - 2
  ELSE IF Dow(d) = 6 THEN d - 1
  ELSE d - 1

\* ---- the remote store (lib/data and the database behind it) ----
Patch(i, patch) == [f \in DOMAIN i |-> IF f \in DOMAIN patch THEN patch[f] ELSE i[f]]

\* addItem / updateItem / deleteItem / rpc('toggle_item_done') applied to the
\* items table.
ApplyWrite(w, st) ==
  CASE w.k = "insert" -> st \cup {w.item}
    [] w.k = "update" -> {IF i.id = w.id THEN Patch(i, w.patch) ELSE i : i \in st}
    [] w.k = "delete" -> {i \in st : i.id # w.id}
    [] w.k = "rpc"    -> {IF i.id = w.id THEN [i EXCEPT !.done = ~i.done] ELSE i : i \in st}

\* listWeek(centerId, monday): the items of the visible week.
ListWeek(st) == {i \in st : i.day >= dayKeys[1] /\ i.day <= dayKeys[1] + 6}

WriteOutcomes == {"ok", "transient", "fatal"}

\* isTransientNetworkError(e): a network-like message, or the browser offline.
IsTransient(out) == out = "transient" \/ ~online

\* showErr(e): alerts unless the error is transient.
ShowErr(out) == IF IsTransient(out) THEN alerts ELSE alerts + 1

\* refresh(): returns at once without a centre or offline, else fetches.
RefreshStarts == centerId # "null" /\ online

Task(op, id, ws) == [seq |-> nOps + 1, op |-> op, id |-> id, eff |-> EffectiveRole,
                     role |-> role, writes |-> ws, pc |-> "write", snap |-> {}]

Log(act, op, out) == [act |-> act, op |-> op, out |-> out, seq |-> nOps + 1]

\* The record of a handler run started now on item `id` (0: no item): the
\* store, the cache and the number of alerts it started from, how it ended
\* (res) and the store it left (post), and whether its refresh delivered a
\* snapshot (view).
Run(op, id, res) == [op |-> op, id |-> id, pre |-> store, cache |-> items,
                     alerts |-> alerts, res |-> res, post |-> store, view |-> "none"]

\* A handler run that returns without any remote call.
Returns(op, id, why) ==
  /\ nOps' = nOps + 1
  /\ boardLog' = Log("return", op, why)
  /\ hist' = Append(hist, Run(op, id, "return"))
  /\ UNCHANGED <<readOnly, online, items, store, draftCell, editId, alerts, tasks>>
  /\ UNCHANGED <<cfgVars, authVars, inpVars, syncVars, helperVars>>

\* A handler run that returns after prompting the user with alert(...).
Rejects(op, id, why) ==
  /\ nOps' = nOps + 1
  /\ alerts' = alerts + 1
  /\ boardLog' = Log("reject", op, why)
  /\ hist' = Append(hist, Run(op, id, "reject"))
  /\ UNCHANGED <<readOnly, online, items, store, draftCell, editId, tasks>>
  /\ UNCHANGED <<cfgVars, authVars, inpVars, syncVars, helperVars>>

\* A handler run that issues its first remote write and suspends.
Issues(op, id, ws) ==
  /\ nOps' = nOps + 1
  /\ tasks' = tasks \cup {Task(op, id, ws)}
  /\ boardLog' = Log("issue", op, "none")
  /\ hist' = Append(hist, Run(op, id, "running"))
  /\ UNCHANGED <<readOnly, online, items, store, draftCell, editId, alerts>>
  /\ UNCHANGED <<cfgVars, authVars, inpVars, syncVars, helperVars>>

UpdateOf(id, patch) == [k |-> "update", id |-> id, patch |-> patch]

\* A handler run whose try block throws before any remote call: showErr.
Throws(op, id) ==
  /\ nOps' = nOps + 1
  /\ alerts' = ShowErr("fatal")
  /\ boardLog' = Log("throw", op, "fatal")
  /\ hist' = Append(hist, Run(op, id, "throw"))
  /\ UNCHANGED <<readOnly, online, items, store, draftCell, editId, tasks>>
  /\ UNCHANGED <<cfgVars, authVars, inpVars, syncVars, helperVars>>

\* onSubmitAdd(day, vals); the inline editor of the draft cell passes the
\* draft's day.
AddPayload(day, vals) ==
  [id |-> 10 + nOps + 1, day |-> day, row |-> draftCell.row,
   ord |-> NextOrd(CellItems(items, day, draftCell.row)),
   name |-> Trim(vals.name), room |-> Trim(vals.room), dx |-> Trim(vals.dx),
   proc |-> "P", done |-> FALSE]

onSubmitAdd(vals) ==
  IF ~WriteGuard THEN Returns("add", 0, "role")
  ELSE IF centerId = "null" THEN Returns("add", 0, "nocenter")
  ELSE IF draftCell = NoCell THEN Throws("add", 0)
  ELSE LET payload == AddPayload(draftCell.day, vals)
       IN  IF payload.name = "" /\ payload.dx = "" /\ payload.room = ""
           THEN Rejects("add", 0, "empty")
           ELSE Issues("add", 0, << [k |-> "insert", id |-> payload.id, item |-> payload] >>)

\* onSubmitEdit(id, vals)
onSubmitEdit(it, vals) ==
  IF ~WriteGuard THEN Returns("edit", it.id, "role")
  ELSE Issues("edit", it.id, << UpdateOf(it.id, [name |-> Trim(vals.name), room |-> Trim(vals.room),
                                          dx |-> Trim(vals.dx), proc |-> "P"]) >>)

\* doDelete(id), with the answer to confirm()
doDelete(it, confirmed) ==
  IF ~WriteGuard THEN Returns("delete", it.id, "role")
  ELSE IF ~confirmed THEN Returns("delete", it.id, "cancel")
  ELSE Issues("delete", it.id, << [k |-> "delete", id |-> it.id] >>)

\* doToggleDone(it)
doToggleDone(it) ==
  IF ToggleAsEditor
  THEN Issues("toggleDone", it.id, << UpdateOf(it.id, [done |-> ~it.done]) >>)
  ELSE Issues("toggleDone", it.id, << [k |-> "rpc", id |-> it.id] >>)

\* The two writes of an ord swap: the moved item first, the neighbour second.
SwapWritesNeighbourFirst(it, other) == << UpdateOf(other.id, [ord |-> it.ord]),
                                          UpdateOf(it.id, [ord |-> other.ord]) >>
SwapWritesOneSided(it, other) == << UpdateOf(it.id, [ord |-> other.ord]),
                                    UpdateOf(other.id, [ord |-> other.ord]) >>
SwapWrites(it, other) == << UpdateOf(it.id, [ord |-> other.ord]),
                            UpdateOf(other.id, [ord |-> it.ord]) >>

moveOneUp(it) ==
  \/ /\ CanBeFirst(items, it)
     /\ Returns("moveOneUp", it.id, "edge")
  \/ \E prev \in PrevCandidates(items, it) : Issues("moveOneUp", it.id, SwapWrites(it, prev))

moveOneDown(it) ==
  \/ /\ CanBeLast(items, it)
     /\ Returns("moveOneDown", it.id, "edge")
  \/ \E next \in NextCandidates(items, it) : Issues("moveOneDown", it.id, SwapWrites(it, next))

moveRowUp(it) ==
  LET rIdx == IndexOf(rows, it.row)
  IN  IF rIdx <= 1 THEN Returns("moveRowUp", it.id, "edge")
      ELSE Issues("moveRowUp", it.id, << UpdateOf(it.id, [row |-> rows[rIdx - 1]]) >>)

moveRowDown(it) ==
  LET rIdx == IndexOf(rows, it.row)
  IN  IF rIdx < 1 \/ rIdx >= Len(rows) THEN Returns("moveRowDown", it.id, "edge")
      ELSE Issues("moveRowDown", it.id, << UpdateOf(it.id, [row |-> rows[rIdx + 1]]) >>)

moveDayLeft(it) ==
  LET idx == IndexOf(dayKeys, it.day)
  IN  IF idx > 1 THEN Issues("moveDayLeft", it.id, << UpdateOf(it.id, [day |-> dayKeys[idx - 1]]) >>)
      ELSE IF idx = 1
      THEN Issues("moveDayLeft", it.id, << UpdateOf(it.id, [day |-> prevBusinessDayISO(it.day)]) >>)
      ELSE Returns("moveDayLeft", it.id, "hidden")

moveDayRight(it) ==
  LET idx == IndexOf(dayKeys, it.day)
  IN  IF idx >= 1 /\ idx < Len(dayKeys)
      THEN Issues("moveDayRight", it.id, << UpdateOf(it.id, [day |-> dayKeys[idx + 1]]) >>)
      ELSE IF idx = Len(dayKeys)
      THEN Issues("moveDayRight", it.id, << UpdateOf(it.id, [day |-> nextBusinessDayISO(it.day)]) >>)
      ELSE Returns("moveDayRight", it.id, "hidden")

\* ---- continuations of a suspended handler run ----
TaskLog(act, t, out) == [act |-> act, op |-> t.op, out |-> out, seq |-> t.seq]

\* A handler that called refresh() after its first write.
AnyWrite(t) == TRUE

\* The write that has answered is the last one of the handler: the only one,
\* or the second of an ord swap; `await refresh()` is the next statement.
LastWrite(t) == Len(t.writes) = 1

\* A handler that merged the write it made into the cache.
MergedWrite(cache, w) == ApplyWrite(w, cache)

\* What a mutation handler does to the items cache when its write has
\* answered: nothing, no handler calls setItems.
CacheAfterWrite(cache, w) == cache

\* The pending write of run t answers. On success the next write is issued,
\* or, after the last one, the form is closed and refresh() is called; on
\* failure the catch hands the error to showErr.
WriteDone(t, out) ==
  /\ t \in tasks /\ t.pc = "write"
  /\ IF out = "ok"
     THEN /\ store' = ApplyWrite(Head(t.writes), store)
          /\ IF ~LastWrite(t)
             THEN /\ tasks' = (tasks \ {t}) \cup {[t EXCEPT !.writes = Tail(t.writes)]}
                  /\ UNCHANGED <<draftCell, editId>>
                  /\ boardLog' = TaskLog("written", t, "more")
                  /\ UNCHANGED hist
             ELSE /\ tasks' = (tasks \ {t}) \cup
                              (IF RefreshStarts
                               THEN {[t EXCEPT !.writes = <<>>, !.pc = "fetching"]}
                               ELSE {})
                  /\ draftCell' = IF t.op = "add" THEN NoCell ELSE draftCell
                  /\ editId' = IF t.op = "edit" THEN 0 ELSE editId
                  /\ boardLog' = TaskLog("written", t, IF RefreshStarts THEN "refresh"
                                                        ELSE "norefresh")
                  /\ hist' = [hist EXCEPT ![t.seq].res = "ok", ![t.seq].post = store']
          /\ items' = CacheAfterWrite(items, Head(t.writes))
          /\ UNCHANGED alerts
     ELSE /\ tasks' = tasks \ {t}
          /\ alerts' = ShowErr(out)
          /\ boardLog' = TaskLog("writeFailed", t, out)
          /\ hist' = [hist EXCEPT ![t.seq].res = "failed", ![t.seq].post = store]
          /\ UNCHANGED <<store, items, draftCell, editId>>
  /\ UNCHANGED <<readOnly, online, nOps>>
  /\ UNCHANGED <<cfgVars, authVars, inpVars, syncVars, helperVars>>

\* The remote store answers the listWeek query of run t.
RefreshServe(t, out) ==
  /\ t \in tasks /\ t.pc = "fetching"
  /\ IF out = "ok"
     THEN /\ tasks' = (tasks \ {t}) \cup {[t EXCEPT !.pc = "fetched", !.snap = ListWeek(store)]}
          /\ boardLog' = TaskLog("served", t, out)
     ELSE /\ tasks' = (tasks \ {t}) \cup {[t EXCEPT !.pc = "fetchFailed", !.writes = <<out>>]}
          /\ boardLog' = TaskLog("served", t, out)
  /\ UNCHANGED <<readOnly, online, items, store, draftCell, editId, alerts, nOps, hist>>
  /\ UNCHANGED <<cfgVars, authVars, inpVars, syncVars, helperVars>>

\* The answer reaches the client: setItems(data), or showErr(e).
RefreshDeliver(t) ==
  /\ t \in tasks /\ t.pc \in {"fetched", "fetchFailed"}
  /\ tasks' = tasks \ {t}
  /\ IF t.pc = "fetched"
     THEN /\ items' = t.snap
          /\ UNCHANGED alerts
     ELSE /\ alerts' = ShowErr(t.writes[1])
          /\ UNCHANGED items
  /\ boardLog' = TaskLog("delivered", t, t.pc)
  /\ hist' = IF t.seq > 0 THEN [hist EXCEPT ![t.seq].view = t.pc] ELSE hist
  /\ UNCHANGED <<readOnly, online, store, draftCell, editId, nOps>>
  /\ UNCHANGED <<cfgVars, authVars, inpVars, syncVars, helperVars>>

\* ---- the Board's surroundings ----
EnvLog(what) == [act |-> "env", op |-> what, out |-> "none", seq |-> 0]

\* The role prop changes (PageClientBoard's setRole); the Board is rendered
\* for viewer and editor only.
SetRole(r) ==
  /\ r # role
  /\ role' = r
  /\ boardLog' = EnvLog("role")
  /\ UNCHANGED <<readOnly, online, items, store, draftCell, editId, alerts, tasks, nOps, hist>>
  /\ UNCHANGED <<cfgVars, authReady, alive, resolutions, ladder, roleQueries, authLog, inpVars, syncVars, helperVars>>

\* onClick={() => setReadOnly((v) => !v)}
ToggleReadOnly ==
  /\ readOnly' = ~readOnly
  /\ boardLog' = EnvLog("readOnly")
  /\ UNCHANGED <<online, items, store, draftCell, editId, alerts, tasks, nOps, hist>>
  /\ UNCHANGED <<cfgVars, authVars, inpVars, syncVars, helperVars>>

\* navigator.onLine changes.
SetOnline ==
  /\ online' = ~online
  /\ boardLog' = EnvLog("online")
  /\ UNCHANGED <<readOnly, items, store, draftCell, editId, alerts, tasks, nOps, hist>>
  /\ UNCHANGED <<cfgVars, authVars, inpVars, syncVars, helperVars>>

\* onClick={() => setDraftCell({ day: dk, row })} / onCancelAdd
DraftCells == {[day |-> 0, row |-> "A"], [day |-> 0, row |-> "B"]}
SetDraftCell(c) ==
  /\ c # draftCell
  /\ draftCell' = c
  /\ boardLog' = EnvLog("draft")
  /\ UNCHANGED <<readOnly, online, items, store, editId, alerts, tasks, nOps, hist>>
  /\ UNCHANGED <<cfgVars, authVars, inpVars, syncVars, helperVars>>

\* The store and the cache when the Board is mounted for centre "a" with a
\* known role: the sync effect's first refresh is in flight.
ItemX == [id |-> 1, day |-> 0, row |-> "A", ord |-> 1, name |-> "n", room |-> "", dx |-> "",
          proc |-> "P", done |-> FALSE]
ItemY == [id |-> 2, day |-> 0, row |-> "A", ord |-> 2, name |-> "n", room |-> "", dx |-> "d",
          proc |-> "P", done |-> FALSE]
ItemZ == [id |-> 3, day |-> 4, row |-> "B", ord |-> 1, name |-> "n", room |-> "", dx |-> "",
          proc |-> "P", done |-> TRUE]
\* A card of the second room whose ord is that of a card of the first room.
ItemV == [id |-> 4, day |-> 0, row |-> "B", ord |-> 2, name |-> "n", room |-> "", dx |-> "",
          proc |-> "P", done |-> FALSE]
\* A third card of the cell of X and Y, after a gap in the ords.
ItemW == [id |-> 6, day |-> 0, row |-> "A", ord |-> 4, name |-> "n", room |-> "", dx |-> "",
          proc |-> "P", done |-> FALSE]
\* A card of a room that is no longer in the configured room list.
ItemH == [id |-> 5, day |-> 1, row |-> "H", ord |-> 1, name |-> "n", room |-> "", dx |-> "",
          proc |-> "P", done |-> FALSE]

\* The Board before it is mounted: nothing cached, nothing in flight.
BoardIdle ==
  /\ readOnly = FALSE
  /\ online = TRUE
  /\ items = {}
  /\ store = {ItemX, ItemY, ItemZ}
  /\ draftCell = NoCell
  /\ editId = 0
  /\ alerts = 0
  /\ tasks = {}
  /\ nOps = 0
  /\ boardLog = [act |-> "init", op |-> "none", out |-> "none", seq |-> 0]
  /\ hist = <<>>

\* The Board just mounted over the remote items `st`: readOnly read from
\* localStorage, the sync effect's first refresh in flight.
BoardMountedOn(st) ==
  /\ readOnly \in BOOLEAN
  /\ online = TRUE
  /\ items = {}
  /\ store = st
  /\ draftCell = NoCell
  /\ editId = 0
  /\ alerts = 0
  /\ tasks = {[seq |-> 0, op |-> "initial", id |-> 0, eff |-> "none", role |-> "none",
               writes |-> <<>>, pc |-> "fetching", snap |-> {}]}
  /\ nOps = 0
  /\ boardLog = [act |-> "init", op |-> "none", out |-> "none", seq |-> 0]
  /\ hist = <<>>

BoardMounted == BoardMountedOn({ItemX, ItemY, ItemZ})

\* The page with the centre loaded and the role known, as the Board needs it.
PageLoaded ==
  /\ centerSlug = "a" /\ loadingCenterRef = 0
  /\ loads = << [slug |-> "a", stage |-> 4, status |-> "ok", roomNames |-> <<"A", "B">>] >>
  /\ callers = << [slug |-> "a", load |-> 1, cancelled |-> FALSE, state |-> "resolved",
                   joined |-> FALSE] >>
  /\ centerId = CenterIdOf("a") /\ centerName = "a"
  /\ rows = <<"A", "B">> /\ procs = <<"P">> /\ openRoomsToday = 2 /\ cfgAlerts = 0
  /\ cfgLog = [act |-> "applied", slug |-> "a"]
  /\ role \in {"viewer", "editor"} /\ authReady = TRUE /\ alive = TRUE
  /\ resolutions = << [kind |-> "boot", hasUser |-> TRUE, pc |-> "done", out |-> role] >>
  /\ ladder = NoLadder /\ roleQueries = 1
  /\ authLog = [act |-> "lookupDone", hasUser |-> TRUE, out |-> role, prevRole |-> "viewer",
                prevQueries |-> 0, wasAlive |-> TRUE]

(***************************************************************************)
(* Board: inpatients (admission toggle, discharge, debounced field edits)  *)
(***************************************************************************)
MaxInpOps == 4   \* toggleInpatient / dischargeInpatient invocations explored
MaxEdits == 3    \* updateInpatientFieldDebounced invocations explored

Clients == {1, 2}    \* browsers showing the same centre
SrcItems == {1}      \* id of the board item that is admitted and discharged
RowIds == {1, 2}     \* ids of the inpatient rows edited in the modal

\* One field edit of the modal: updateInpatientFieldDebounced(r.id, {bed: ...})
\* or (r.id, {dx: ...}).
FieldPatches == {[f |-> "bed", v |-> "b1"], [f |-> "dx", v |-> "d1"]}
NoPatch == [f |-> "none", v |-> ""]
NoTimer == [n |-> 0, patch |-> NoPatch]

InpRow(id, src) ==
  [id |-> id, src |-> src, active |-> TRUE, discharged |-> FALSE, bed |-> "", dx |-> ""]

ActiveOf(st, it) == {r \in st : r.src = it /\ r.active}
ActiveRows(st) == {r \in st : r.active}

\* update({is_active: false, discharged_at: now}) as the store applies it.
Discharged(r) == [r EXCEPT !.active = FALSE, !.discharged = TRUE]

\* A hard delete of the same rows instead of the update.
DeleteBySource(st, it) == {r \in st : ~(r.src = it /\ r.active)}

\* ... .eq('source_item_id', it.id).eq('is_active', true)
DischargeBySource(st, it) == {IF r.src = it /\ r.active THEN Discharged(r) ELSE r : r \in st}

\* ... .eq('id', rowId)
DischargeById(st, id) == {IF r.id = id THEN Discharged(r) ELSE r : r \in st}

\* update(patch).eq('id', rowId)
ApplyField(r, p) == IF p.f = "bed" THEN [r EXCEPT !.bed = p.v] ELSE [r EXCEPT !.dx = p.v]
PatchById(st, id, p) == {IF r.id = id THEN ApplyField(r, p) ELSE r : r \in st}

\* The store's answer to insert(payload): a second active record of one
\* source item is refused with code 23505.
InsertOutcome(st, it) == IF ActiveOf(st, it) = {} THEN "ok" ELSE "23505"
Inserted(st, it) ==
  IF ActiveOf(st, it) = {} THEN st \cup {InpRow(Cardinality(st) + 1, it)} ELSE st

\* if (insErr) { if (code !== '23505') throw insErr; }
OnlyOk(out) == out = "ok"
AlwaysOk(out) == TRUE
TreatedAsOk(out) == out \in {"ok", "23505"}

\* if (timers[rowId]) clearTimeout(timers[rowId]); timers[rowId] = setTimeout(...)
RestartAll(ts, row, t) == [r \in DOMAIN ts |-> IF r = row THEN t ELSE NoTimer]
RestartTimer(ts, row, t) == [ts EXCEPT ![row] = t]

InpTask(c, kind, it, row, pc) ==
  [seq |-> nInp + 1, client |-> c, kind |-> kind, item |-> it, row |-> row, pc |-> pc,
   snap |-> {}, patch |-> NoPatch, n |-> 0]
InpEvent(act, c, it, out) ==
  [act |-> act, client |-> c, item |-> it, out |-> out, prevSet |-> inpSet[c],
   prevStore |-> inp]

\* const refreshInpatients = useCallback(async () => { ... select ... }): the
\* fetch it issues.
FetchOf(t) == [t EXCEPT !.pc = "fetching"]

\* A guard that never finds the key.
MarkerNeverSet(c, it) == FALSE

\* if (inpatientInFlightRef.current.has(key)) return
InFlightHas(c, it) == it \in inFlight[c]

\* toggleInpatient(it) up to its first await.
toggleInpatient(c, it) ==
  /\ nInp < MaxInpOps
  /\ centerId # "null"
  /\ nInp' = nInp + 1
  /\ IF InFlightHas(c, it)
       THEN /\ inpLog' = InpEvent("busy", c, it, "none")
            /\ UNCHANGED <<inFlight, inpTasks>>
       ELSE /\ inFlight' = [inFlight EXCEPT ![c] = @ \cup {it}]
            /\ inpTasks' = inpTasks \cup
                 {InpTask(c, "toggle", it, 0, IF it \in inpSet[c] THEN "update" ELSE "insert")}
            /\ inpLog' = InpEvent("toggle", c, it, IF it \in inpSet[c] THEN "update" ELSE "insert")
  /\ UNCHANGED <<inp, inpSet, inpList, timers, debLog>>
  /\ UNCHANGED <<cfgVars, authVars, boardVars, syncVars, helperVars>>

\* The discharge branch of toggleInpatient after its update is answered.
ToggleUpdateDone(t, ok) ==
  /\ t \in inpTasks /\ t.kind = "toggle" /\ t.pc = "update"
  /\ inFlight' = [inFlight EXCEPT ![t.client] = @ \ {t.item}]
  /\ IF ok
       THEN /\ inp' = DischargeBySource(inp, t.item)
            /\ inpSet' = [inpSet EXCEPT ![t.client] = @ \ {t.item}]
            /\ inpList' = [inpList EXCEPT ![t.client] = {r \in @ : r.src # t.item}]
            /\ inpTasks' = (inpTasks \ {t}) \cup {[FetchOf(t) EXCEPT !.kind = "refresh"]}
            /\ inpLog' = InpEvent("updateDone", t.client, t.item, "ok")
       ELSE /\ inpTasks' = inpTasks \ {t}
            /\ inpLog' = InpEvent("updateDone", t.client, t.item, "warn")
            /\ UNCHANGED <<inp, inpSet, inpList>>
  /\ UNCHANGED <<nInp, timers, debLog>>
  /\ UNCHANGED <<cfgVars, authVars, boardVars, syncVars, helperVars>>

\* The admit branch of toggleInpatient after its insert is answered; `sent`
\* is false when the request fails before the store decides.
ToggleInsertDone(t, sent) ==
  /\ t \in inpTasks /\ t.kind = "toggle" /\ t.pc = "insert"
  /\ LET out == IF sent THEN InsertOutcome(inp, t.item) ELSE "error" IN
     /\ inp' = IF sent THEN Inserted(inp, t.item) ELSE inp
     /\ IF TreatedAsOk(out)
          THEN /\ inpSet' = [inpSet EXCEPT ![t.client] = @ \cup {t.item}]
               /\ inpTasks' = (inpTasks \ {t}) \cup {FetchOf(t)}
               /\ inpLog' = InpEvent("insertDone", t.client, t.item, out)
               /\ UNCHANGED inFlight
          ELSE /\ inFlight' = [inFlight EXCEPT ![t.client] = @ \ {t.item}]
               /\ inpTasks' = inpTasks \ {t}
               /\ inpLog' = [InpEvent("insertDone", t.client, t.item, out) EXCEPT !.act = "insertThrown"]
               /\ UNCHANGED inpSet
  /\ UNCHANGED <<nInp, inpList, timers, debLog>>
  /\ UNCHANGED <<cfgVars, authVars, boardVars, syncVars, helperVars>>

\* The store answers the select of refreshInpatients.
InpFetchServe(t, ok) ==
  /\ t \in inpTasks /\ t.pc = "fetching"
  /\ inpTasks' = (inpTasks \ {t}) \cup
       {[t EXCEPT !.pc = IF ok THEN "fetched" ELSE "fetchFailed", !.snap = ActiveRows(inp)]}
  /\ inpLog' = InpEvent("served", t.client, t.item, IF ok THEN "ok" ELSE "error")
  /\ UNCHANGED <<inp, inpSet, inpList, inFlight, nInp, timers, debLog>>
  /\ UNCHANGED <<cfgVars, authVars, boardVars, syncVars, helperVars>>

\* refreshInpatients resumes with the answer: it replaces the list and the
\* admitted set, and asks for the proc and day of the listed items when there
\* are any; otherwise it ends, and a toggleInpatient that awaited it reaches
\* its finally block.
InpFetchDeliver(t) ==
  /\ t \in inpTasks /\ t.pc \in {"fetched", "fetchFailed"}
  /\ IF t.pc = "fetched"
       THEN /\ inpList' = [inpList EXCEPT ![t.client] = t.snap]
            /\ inpSet' = [inpSet EXCEPT ![t.client] = {r.src : r \in t.snap}]
       ELSE UNCHANGED <<inpList, inpSet>>
  /\ IF t.pc = "fetched" /\ t.snap # {}
       THEN /\ inpTasks' = (inpTasks \ {t}) \cup {[t EXCEPT !.pc = "lookup", !.snap = {}]}
            /\ UNCHANGED inFlight
       ELSE /\ inpTasks' = inpTasks \ {t}
            /\ inFlight' = IF t.kind = "toggle"
                              THEN [inFlight EXCEPT ![t.client] = @ \ {t.item}]
                              ELSE inFlight
  /\ inpLog' = InpEvent("refreshed", t.client, t.item, IF t.pc = "fetched" THEN "ok" ELSE "warn")
  /\ UNCHANGED <<inp, nInp, timers, debLog>>
  /\ UNCHANGED <<cfgVars, authVars, boardVars, syncVars, helperVars>>

\* The proc / day lookup of refreshInpatients is answered (either way it only
\* sets inpatientMetaMap); refreshInpatients ends.
InpLookupDone(t) ==
  /\ t \in inpTasks /\ t.pc = "lookup"
  /\ inpTasks' = inpTasks \ {t}
  /\ inFlight' = IF t.kind = "toggle" THEN [inFlight EXCEPT ![t.client] = @ \ {t.item}]
                 ELSE inFlight
  /\ inpLog' = InpEvent("lookupDone", t.client, t.item, "none")
  /\ UNCHANGED <<inp, inpSet, inpList, nInp, timers, debLog>>
  /\ UNCHANGED <<cfgVars, authVars, boardVars, syncVars, helperVars>>

\* dischargeInpatient(rowId) up to its await, from the Dar de alta button of a
\* listed row.
dischargeInpatient(c, row) ==
  /\ nInp < MaxInpOps
  /\ row \in inpList[c]
  /\ nInp' = nInp + 1
  /\ inpTasks' = inpTasks \cup {InpTask(c, "discharge", row.src, row.id, "update")}
  /\ inpLog' = InpEvent("discharge", c, row.src, "update")
  /\ UNCHANGED <<inp, inpSet, inpList, inFlight, timers, debLog>>
  /\ UNCHANGED <<cfgVars, authVars, boardVars, syncVars, helperVars>>

\* dischargeInpatient after its update is answered.
DischargeDone(t, ok) ==
  /\ t \in inpTasks /\ t.kind = "discharge" /\ t.pc = "update"
  /\ inpTasks' = inpTasks \ {t}
  /\ IF ok
       THEN /\ inp' = DischargeById(inp, t.row)
            /\ inpList' = [inpList EXCEPT ![t.client] = {r \in @ : r.id # t.row}]
            /\ inpSet' = [inpSet EXCEPT ![t.client] = @ \ {t.item}]
            /\ inpLog' = InpEvent("dischargeDone", t.client, t.item, "ok")
       ELSE /\ inpLog' = InpEvent("dischargeDone", t.client, t.item, "warn")
            /\ UNCHANGED <<inp, inpList, inpSet>>
  /\ UNCHANGED <<inFlight, nInp, timers, debLog>>
  /\ UNCHANGED <<cfgVars, authVars, boardVars, syncVars, helperVars>>

\* updateInpatientFieldDebounced(rowId, patch) on client 1.
updateInpatientFieldDebounced(rowId, patch) ==
  /\ Cardinality({i \in DOMAIN debLog : debLog[i].act = "schedule"}) < MaxEdits
  /\ LET n == Len(debLog) + 1 IN
     /\ inpList' = [inpList EXCEPT ![1] = PatchById(@, rowId, patch)]
     /\ timers' = RestartTimer(timers, rowId, [n |-> n, patch |-> patch])
     /\ debLog' = Append(debLog, [act |-> "schedule", row |-> rowId, n |-> n, patch |-> patch,
                                  view |-> inpList'[1]])
  /\ UNCHANGED <<inp, inpSet, inFlight, inpTasks, nInp, inpLog>>
  /\ UNCHANGED <<cfgVars, authVars, boardVars, syncVars, helperVars>>

\* The 700 ms timer of a row fires: its callback sends the update.
TimerFires(rowId) ==
  /\ timers[rowId] # NoTimer
  /\ timers' = [timers EXCEPT ![rowId] = NoTimer]
  /\ inpTasks' = inpTasks \cup
       {[seq |-> 0, client |-> 1, kind |-> "save", item |-> 0, row |-> rowId, pc |-> "update",
         snap |-> {}, patch |-> timers[rowId].patch, n |-> timers[rowId].n]}
  /\ debLog' = Append(debLog, [act |-> "fire", row |-> rowId, n |-> timers[rowId].n,
                               patch |-> timers[rowId].patch, view |-> inpList[1]])
  /\ UNCHANGED <<inp, inpSet, inpList, inFlight, nInp, inpLog>>
  /\ UNCHANGED <<cfgVars, authVars, boardVars, syncVars, helperVars>>

\* The update sent by a timer is answered.
SaveDone(t, ok) ==
  /\ t \in inpTasks /\ t.kind = "save" /\ t.pc = "update"
  /\ inpTasks' = inpTasks \ {t}
  /\ inp' = IF ok THEN PatchById(inp, t.row, t.patch) ELSE inp
  /\ inpLog' = InpEvent("saveDone", 1, t.row, IF ok THEN "ok" ELSE "warn")
  /\ UNCHANGED <<inpSet, inpList, inFlight, nInp, timers, debLog>>
  /\ UNCHANGED <<cfgVars, authVars, boardVars, syncVars, helperVars>>

\* No inpatient activity: the state of the section in the other specifications.
InpIdle ==
  /\ inp = {}
  /\ inpSet = [c \in Clients |-> {}]
  /\ inpList = [c \in Clients |-> {}]
  /\ inFlight = [c \in Clients |-> {}]
  /\ inpTasks = {}
  /\ nInp = 0
  /\ inpLog = [act |-> "init", client |-> 0, item |-> 0, out |-> "none", prevSet |-> {},
               prevStore |-> {}]
  /\ timers = [r \in RowIds |-> NoTimer]
  /\ debLog = <<>>

\* Two clients mounted on a centre without inpatients, after the
\* refreshInpatients of the effect on centerId has been answered on each.
InpMounted ==
  /\ inp = {}
  /\ inpSet = [c \in Clients |-> {}]
  /\ inpList = [c \in Clients |-> {}]
  /\ inFlight = [c \in Clients |-> {}]
  /\ inpTasks = {}
  /\ nInp = 0
  /\ inpLog = [act |-> "init", client |-> 0, item |-> 0, out |-> "none", prevSet |-> {},
               prevStore |-> {}]
  /\ timers = [r \in RowIds |-> NoTimer]
  /\ debLog = <<>>

\* Client 1 with the modal open on two admitted patients.
InpModalOpen ==
  /\ inp = {InpRow(1, 1), InpRow(2, 2)}
  /\ inpSet = [c \in Clients |-> IF c = 1 THEN {1, 2} ELSE {}]
  /\ inpList = [c \in Clients |-> IF c = 1 THEN inp ELSE {}]
  /\ inFlight = [c \in Clients |-> {}]
  /\ inpTasks = {}
  /\ nInp = 0
  /\ inpLog = [act |-> "init", client |-> 0, item |-> 0, out |-> "none", prevSet |-> {},
               prevStore |-> {}]
  /\ timers = [r \in RowIds |-> NoTimer]
  /\ debLog = <<>>

(***************************************************************************)
(* Board: the sync effect (refresh, refreshSafe, realtime, poll, rejoin)   *)
(***************************************************************************)
MaxTriggers == 2   \* notifications, poll ticks, rejoin triggers, toggles and week changes explored

\* weekStart as the day number of its Monday: this week and the next.
WeekStarts == {0, 7}
MaxPolls == 1   \* fetches of the poll timer outstanding at a time

\* A card of next week.
ItemN == [id |-> 7, day |-> 7, row |-> "A", ord |-> 1, name |-> "n", room |-> "", dx |-> "",
          proc |-> "P", done |-> FALSE]

\* listWeek(centerId, dayKeys[0]) for the week starting on `monday`.
ListWeekOf(st, monday) == {i \in st : i.day >= monday /\ i.day <= monday + 6}

\* The live instance of the sync effect (0: none).
Live == IF insts # <<>> /\ insts[Len(insts)].alive THEN Len(insts) ELSE 0

RejoinOrder == <<"settle", "session", "disconnect", "connect", "resubscribe", "refreshSafe">>
RejoinTriggers == {"focus", "visibility", "signedin", "auth"}
ResubOutcomes == {"ok", "unsubThrows", "subscribeThrows"}

SyncEvent(act, i, out) ==
  [act |-> act, inst |-> i, out |-> out, n |-> nSync + 1, trace |-> <<>>, failed |-> {},
   by |-> "none"]

\* No unsubscribe before subscribing.
KeepOld(ss, ref) == ss

\* unsubRef.current?.()
Closed(ss, ref) == IF ref = 0 THEN ss ELSE [ss EXCEPT ![ref].active = FALSE]

\* unsubRef.current?.(); unsubRef.current = subscribeItems(centerId, () => void refreshSafe())
Resubscribed(ss, ref, i) == Append(Closed(ss, ref), [owner |-> i, active |-> TRUE])

\* if (!alive) return, always false.
AliveAlways(i) == TRUE

\* if (!alive) return, of refreshSafe and of rejoin.
AliveNow(i) == insts[i].alive

\* The offline check left out.
OnlineAlways(on) == TRUE

\* if (typeof navigator !== 'undefined' && !navigator.onLine) return
OnlineNow(on) == on

\* The busy flag ignored.
BusyNever == FALSE

\* if (rejoinBusyRef.current) return
Busy == rejoinBusyRef

\* refreshSafe() of instance i, and the refresh() it awaits, up to the await of
\* listWeek: the fetch it issues, if any.
FetchIssued(i, src, n, on) ==
  IF AliveNow(i) /\ centerId # "null" /\ OnlineNow(on)
    THEN {[inst |-> i, week |-> insts[i].week, src |-> src, n |-> n, pc |-> "fetching",
           snap |-> {}, out |-> "none"]}
    ELSE {}

\* subscribeItems' callback of an active subscription: () => void refreshSafe()
Notify(s) ==
  /\ nSync < MaxTriggers
  /\ s \in DOMAIN subs /\ subs[s].active
  /\ nSync' = nSync + 1
  /\ fetches' = fetches \cup FetchIssued(subs[s].owner, "notify", nSync + 1, online)
  /\ syncLog' = SyncEvent("refreshSafe", subs[s].owner, "notify")
  /\ UNCHANGED <<weekStart, insts, subs, unsubRef, rejoinBusyRef, busyTimer, runs, mut, itemsFrom>>
  /\ UNCHANGED <<cfgVars, authVars, boardVars, inpVars, helperVars>>

\* A sync effect that sets no poll timer.
PollNever(i) == FALSE

\* const poll = setInterval(...): the timer of instance i is running.
PollArmed(i) == insts[i].poll

\* setInterval(() => { void refreshSafe() }, 20_000)
PollTick(i) ==
  /\ nSync < MaxTriggers
  /\ i \in DOMAIN insts /\ PollArmed(i)
  /\ nSync' = nSync + 1
  /\ fetches' = fetches \cup FetchIssued(i, "poll", nSync + 1, online)
  /\ syncLog' = SyncEvent("refreshSafe", i, "poll")
  /\ UNCHANGED <<weekStart, insts, subs, unsubRef, rejoinBusyRef, busyTimer, runs, mut, itemsFrom>>
  /\ UNCHANGED <<cfgVars, authVars, boardVars, inpVars, helperVars>>

\* The poll timer fires, as it does every 20 s for as long as it is set; at
\* most MaxPolls of the fetches it started are outstanding.
PollFires(i) ==
  /\ i \in DOMAIN insts /\ PollArmed(i)
  /\ Cardinality({f \in fetches : f.src = "poll"}) < MaxPolls
  /\ fetches' = fetches \cup FetchIssued(i, "poll", 0, online)
  /\ syncLog' = [SyncEvent("refreshSafe", i, "poll") EXCEPT !.n = 0]
  /\ UNCHANGED <<weekStart, insts, subs, unsubRef, rejoinBusyRef, busyTimer, runs, mut, itemsFrom,
                 nSync>>
  /\ UNCHANGED <<cfgVars, authVars, boardVars, inpVars, helperVars>>

\* Another client's toggle reaches the remote store; whether the channel
\* notifies this client of it is left to Notify.
RemoteWrite(id) ==
  /\ nSync < MaxTriggers
  /\ nSync' = nSync + 1
  /\ store' = ApplyWrite([k |-> "rpc", id |-> id], store)
  /\ syncLog' = SyncEvent("remoteWrite", 0, "none")
  /\ UNCHANGED <<readOnly, online, items, draftCell, editId, alerts, tasks, nOps, boardLog, hist>>
  /\ UNCHANGED <<weekStart, insts, subs, unsubRef, rejoinBusyRef, busyTimer, runs, fetches, mut,
                 itemsFrom>>
  /\ UNCHANGED <<cfgVars, authVars, inpVars, helperVars>>

\* rejoin without its navigator.onLine check.
StartsOffline(i, on) == AliveNow(i) /\ ~Busy

\* rejoin() of instance i up to its settle delay, with navigator.onLine = on.
RejoinStarts(i, on) == AliveNow(i) /\ ~Busy /\ OnlineNow(on)
RunsAfterRejoin(i, on, by) ==
  IF RejoinStarts(i, on)
    THEN runs \cup {[inst |-> i, n |-> nSync + 1, pc |-> "settle", trace |-> <<>>, by |-> by]}
    ELSE runs
RejoinVerdict(i, on) ==
  IF ~AliveNow(i) THEN "dead" ELSE IF Busy THEN "busy" ELSE IF ~OnlineNow(on) THEN "offline"
  ELSE "begin"

\* A focus, visibilitychange (visible), salatrack:signedin or SIGNED_IN /
\* TOKEN_REFRESHED event reaches the listener that instance i attached.
rejoin(i, trigger) ==
  /\ nSync < MaxTriggers
  /\ i \in DOMAIN insts /\ insts[i].listening
  /\ nSync' = nSync + 1
  /\ runs' = RunsAfterRejoin(i, online, "event")
  /\ rejoinBusyRef' = (rejoinBusyRef \/ RejoinStarts(i, online))
  /\ syncLog' = SyncEvent("rejoin", i, RejoinVerdict(i, online))
  /\ UNCHANGED <<weekStart, insts, subs, unsubRef, busyTimer, fetches, mut, itemsFrom>>
  /\ UNCHANGED <<cfgVars, authVars, boardVars, inpVars, helperVars>>

\* The device goes offline.
GoOffline ==
  /\ nSync < MaxTriggers
  /\ online
  /\ online' = FALSE
  /\ nSync' = nSync + 1
  /\ syncLog' = SyncEvent("offline", 0, "none")
  /\ UNCHANGED <<readOnly, items, store, draftCell, editId, alerts, tasks, nOps, boardLog, hist>>
  /\ UNCHANGED <<weekStart, insts, subs, unsubRef, rejoinBusyRef, busyTimer, runs, fetches, mut,
                 itemsFrom>>
  /\ UNCHANGED <<cfgVars, authVars, inpVars, helperVars>>

\* The device comes back online: the window's online event calls the rejoin
\* of the instance whose listener is attached.
GoOnline ==
  /\ ~online
  /\ online' = TRUE
  /\ IF \E i \in DOMAIN insts : insts[i].listening
       THEN LET i == CHOOSE j \in DOMAIN insts : insts[j].listening IN
            /\ runs' = RunsAfterRejoin(i, TRUE, "online")
            /\ rejoinBusyRef' = (rejoinBusyRef \/ RejoinStarts(i, TRUE))
            /\ syncLog' = SyncEvent("online", i, RejoinVerdict(i, TRUE))
       ELSE /\ UNCHANGED <<runs, rejoinBusyRef>>
            /\ syncLog' = SyncEvent("online", 0, "none")
  /\ UNCHANGED <<readOnly, items, store, draftCell, editId, alerts, tasks, nOps, boardLog, hist>>
  /\ UNCHANGED <<weekStart, insts, subs, unsubRef, busyTimer, fetches, mut, itemsFrom, nSync>>
  /\ UNCHANGED <<cfgVars, authVars, inpVars, helperVars>>

\* await new Promise((r) => setTimeout(r, 700)) is over: the first
\* refreshSession of retry is sent.
RejoinSettled(r) ==
  /\ r \in runs /\ r.pc = "settle"
  /\ runs' = (runs \ {r}) \cup {[r EXCEPT !.pc = "session", !.trace = Append(@, "settle")]}
  /\ syncLog' = SyncEvent("settled", r.inst, "none")
  /\ UNCHANGED <<weekStart, insts, subs, unsubRef, rejoinBusyRef, busyTimer, fetches, mut,
                 itemsFrom, nSync>>
  /\ UNCHANGED <<cfgVars, authVars, boardVars, inpVars, helperVars>>

\* The session refresh not wrapped in a try of its own.
SessionUncaught(step) == step # "session"

\* try { ... } catch around the session refresh, disconnect, connect and the
\* resubscription: a failure of the step does not leave rejoin's outer try.
CaughtInside(step) == TRUE

\* The last step of RejoinOrder a run reaches when the steps in `failed` throw.
Reached(failed) ==
  LET bad == {k \in 2..5 : RejoinOrder[k] \in failed /\ ~CaughtInside(RejoinOrder[k])} IN
  IF bad = {} THEN 6 ELSE CHOOSE k \in bad : \A j \in bad : k <= j

\* `await retry(() => supabase.auth.refreshSession(), 4, 500)` is over: retry
\* has returned (ok) or has thrown after its last try (~ok); its tries and
\* waits touch no state of the Board. rejoin then runs without suspending: disconnect, connect, unsubscribe and resubscribe, each
\* in its own try, and the call of refreshSafe. When refreshSafe issues no
\* fetch the run ends at once and its finally arms the 800 ms timer that
\* clears the busy flag.
SessionDone(r, ok, dOk, cOk, resub) ==
  /\ r \in runs /\ r.pc = "session"
  /\ LET failed == (IF ok THEN {} ELSE {"session"}) \cup (IF dOk THEN {} ELSE {"disconnect"})
                   \cup (IF cOk THEN {} ELSE {"connect"})
                   \cup (IF resub = "ok" THEN {} ELSE {"resubscribe"})
         last == Reached(failed)
         fetch == IF last = 6 THEN FetchIssued(r.inst, "rejoin", r.n, online) ELSE {}
         after == [r EXCEPT !.trace = @ \o SubSeq(RejoinOrder, 2, last),
                            !.pc = IF fetch = {} THEN "finished" ELSE "refreshSafe"]
     IN
     /\ subs' = CASE last >= 5 /\ resub = "ok" -> Resubscribed(subs, unsubRef, r.inst)
                  [] last >= 5 /\ resub = "subscribeThrows" -> Closed(subs, unsubRef)
                  [] OTHER -> subs
     /\ unsubRef' = IF last >= 5 /\ resub = "ok" THEN Len(subs') ELSE unsubRef
     /\ fetches' = fetches \cup fetch
     /\ runs' = (runs \ {r}) \cup (IF fetch = {} THEN {} ELSE {after})
     /\ busyTimer' = (busyTimer \/ fetch = {})
     /\ syncLog' = [SyncEvent(IF fetch = {} THEN "rejoinDone" ELSE "rejoinRefresh", r.inst,
                              resub) EXCEPT !.trace = after.trace, !.failed = failed, !.n = r.n,
                                      !.by = r.by]
  /\ UNCHANGED <<weekStart, insts, rejoinBusyRef, mut, itemsFrom, nSync>>
  /\ UNCHANGED <<cfgVars, authVars, boardVars, inpVars, helperVars>>

\* A timer callback that leaves the flag as it is.
FlagKept == rejoinBusyRef

\* rejoinBusyRef.current = false
FlagReleased == FALSE

\* setTimeout(() => { rejoinBusyRef.current = false }, 800) fires.
BusyReset ==
  /\ busyTimer
  /\ busyTimer' = FALSE
  /\ rejoinBusyRef' = FlagReleased
  /\ syncLog' = SyncEvent("busyReset", 0, "none")
  /\ UNCHANGED <<weekStart, insts, subs, unsubRef, runs, fetches, mut, itemsFrom, nSync>>
  /\ UNCHANGED <<cfgVars, authVars, boardVars, inpVars, helperVars>>

\* The remote store answers a listWeek query.
FetchServe(f, out) ==
  /\ f \in fetches /\ f.pc = "fetching"
  /\ fetches' = (fetches \ {f}) \cup
       {IF out = "ok" THEN [f EXCEPT !.pc = "fetched", !.snap = ListWeekOf(store, f.week)]
        ELSE [f EXCEPT !.pc = "fetchFailed", !.out = out]}
  /\ syncLog' = SyncEvent("served", f.inst, out)
  /\ UNCHANGED <<weekStart, insts, subs, unsubRef, rejoinBusyRef, busyTimer, runs, mut, itemsFrom,
                 nSync>>
  /\ UNCHANGED <<cfgVars, authVars, boardVars, inpVars, helperVars>>

\* A refresh that drops the answer.
AssignsNever(f) == FALSE

\* refresh() resumes after `await listWeek(...)`: setItems(data), which takes
\* effect while the Board is mounted.
Assigns(f) == \E i \in DOMAIN insts : insts[i].alive

\* refresh() resumes with the answer: setItems(data) or showErr(e). A rejoin
\* run that awaited this refreshSafe ends, and its finally arms the timer
\* that clears the busy flag.
FetchDeliver(f) ==
  /\ f \in fetches /\ f.pc \in {"fetched", "fetchFailed"}
  /\ fetches' = fetches \ {f}
  /\ IF f.pc = "fetched"
       THEN /\ items' = IF Assigns(f) THEN f.snap ELSE items
            /\ itemsFrom' = IF Assigns(f) THEN [inst |-> f.inst, week |-> f.week] ELSE itemsFrom
            /\ UNCHANGED alerts
       ELSE /\ alerts' = ShowErr(f.out)
            /\ UNCHANGED <<items, itemsFrom>>
  /\ IF f.src = "rejoin"
       THEN /\ runs' = {r \in runs : ~(r.pc = "refreshSafe" /\ r.n = f.n)}
            /\ busyTimer' = TRUE
            /\ syncLog' = LET r == CHOOSE x \in runs : x.pc = "refreshSafe" /\ x.n = f.n IN
                           [SyncEvent("rejoinDone", f.inst, f.pc) EXCEPT !.n = f.n,
                              !.trace = r.trace, !.by = r.by]
       ELSE /\ UNCHANGED <<runs, busyTimer>>
            /\ syncLog' = [SyncEvent("delivered", f.inst, f.pc) EXCEPT !.n = f.n]
  /\ UNCHANGED <<readOnly, online, store, draftCell, editId, tasks, nOps, boardLog, hist>>
  /\ UNCHANGED <<weekStart, insts, subs, unsubRef, rejoinBusyRef, mut, nSync>>
  /\ UNCHANGED <<cfgVars, authVars, inpVars, helperVars>>

\* The cleanup of the sync effect, applied to the instance records.
TornDown(is) ==
  [j \in DOMAIN is |-> [is[j] EXCEPT !.alive = FALSE, !.poll = FALSE, !.listening = FALSE]]

\* prevWeek / nextWeek / goToday: setWeekStart changes dayKeys and refresh, so
\* the sync effect is cleaned up and runs again in the same commit: first
\* refreshSafe, unsubscribe and subscribe, and, where the effect has them, a
\* new poll timer and new listeners.
ChangeWeek(w) ==
  /\ nSync < MaxTriggers
  /\ Live # 0 /\ w # weekStart
  /\ nSync' = nSync + 1
  /\ weekStart' = w
  /\ insts' = Append(TornDown(insts), [insts[Live] EXCEPT !.week = w])
  /\ subs' = Resubscribed(Closed(subs, unsubRef), 0, Len(insts'))
  /\ unsubRef' = Len(subs')
  /\ fetches' = fetches \cup
       (IF online THEN {[inst |-> Len(insts'), week |-> w, src |-> "initial", n |-> 0,
                         pc |-> "fetching", snap |-> {}, out |-> "none"]}
        ELSE {})
  /\ syncLog' = SyncEvent("changeWeek", Len(insts'), "none")
  /\ UNCHANGED <<rejoinBusyRef, busyTimer, runs, mut, itemsFrom>>
  /\ UNCHANGED <<cfgVars, authVars, boardVars, inpVars, helperVars>>

\* The Board is disposed: the cleanup of the sync effect runs.
Unmount ==
  /\ Live # 0
  /\ insts' = TornDown(insts)
  /\ subs' = Closed(subs, unsubRef)
  /\ unsubRef' = 0
  /\ syncLog' = SyncEvent("unmount", Live, "none")
  /\ UNCHANGED <<weekStart, rejoinBusyRef, busyTimer, runs, fetches, mut, itemsFrom, nSync>>
  /\ UNCHANGED <<cfgVars, authVars, boardVars, inpVars, helperVars>>

\* doToggleDone(it) on the week-aware Board, up to the await of its rpc; the
\* refresh it will call is the one of the render it was started from.
toggleDoneAt(it) ==
  /\ nSync < MaxTriggers
  /\ Live # 0 /\ mut.pc = "idle" /\ it \in items
  /\ WriteGuard
  /\ nSync' = nSync + 1
  /\ mut' = [pc |-> "write", id |-> it.id, week |-> weekStart, n |-> nSync + 1]
  /\ syncLog' = SyncEvent("toggle", Live, "issue")
  /\ UNCHANGED <<weekStart, insts, subs, unsubRef, rejoinBusyRef, busyTimer, runs, fetches,
                 itemsFrom>>
  /\ UNCHANGED <<cfgVars, authVars, boardVars, inpVars, helperVars>>

\* The rpc of the pending toggle answers: await refresh() on success,
\* showErr(e) on failure.
ToggleAnswered(out) ==
  /\ mut.pc = "write"
  /\ mut' = [pc |-> "idle", id |-> 0, week |-> 0, n |-> 0]
  /\ IF out = "ok"
       THEN /\ store' = ApplyWrite([k |-> "rpc", id |-> mut.id], store)
            /\ fetches' = fetches \cup
                 (IF centerId # "null" /\ online
                    THEN {[inst |-> 0, week |-> mut.week, src |-> "mutation", n |-> mut.n,
                           pc |-> "fetching", snap |-> {}, out |-> "none"]}
                    ELSE {})
            /\ UNCHANGED alerts
       ELSE /\ alerts' = ShowErr(out)
            /\ UNCHANGED <<store, fetches>>
  /\ syncLog' = SyncEvent("toggleAnswered", 0, out)
  /\ UNCHANGED <<readOnly, online, items, draftCell, editId, tasks, nOps, boardLog, hist>>
  /\ UNCHANGED <<weekStart, insts, subs, unsubRef, rejoinBusyRef, busyTimer, runs, itemsFrom,
                 nSync>>
  /\ UNCHANGED <<cfgVars, authVars, inpVars, helperVars>>

\* The sync effect has not run.
SyncIdle ==
  /\ weekStart = 0
  /\ insts = <<>>
  /\ subs = <<>>
  /\ unsubRef = 0
  /\ rejoinBusyRef = FALSE
  /\ busyTimer = FALSE
  /\ runs = {}
  /\ fetches = {}
  /\ mut = [pc |-> "idle", id |-> 0, week |-> 0, n |-> 0]
  /\ itemsFrom = [inst |-> 0, week |-> 0]
  /\ nSync = 0
  /\ syncLog = [act |-> "init", inst |-> 0, out |-> "none", n |-> 0, trace |-> <<>>,
                failed |-> {}, by |-> "none"]

\* The sync effect has run for this week and its first refreshSafe has
\* delivered: channel subscribed, poll timer and listeners set.
SyncMounted ==
  /\ weekStart = 0
  /\ insts = << [week |-> 0, alive |-> TRUE, poll |-> TRUE, listening |-> TRUE] >>
  /\ subs = << [owner |-> 1, active |-> TRUE] >>
  /\ unsubRef = 1
  /\ rejoinBusyRef = FALSE
  /\ busyTimer = FALSE
  /\ runs = {}
  /\ fetches = {}
  /\ mut = [pc |-> "idle", id |-> 0, week |-> 0, n |-> 0]
  /\ itemsFrom = [inst |-> 1, week |-> 0]
  /\ nSync = 0
  /\ syncLog = [act |-> "init", inst |-> 0, out |-> "none", n |-> 0, trace |-> <<>>,
                failed |-> {}, by |-> "none"]

\* The sync effect without poll timer and rejoin listeners has just run for
\* this week: first refreshSafe in flight, channel subscribed.
SyncMountedPlain ==
  /\ weekStart = 0
  /\ insts = << [week |-> 0, alive |-> TRUE, poll |-> FALSE, listening |-> FALSE] >>
  /\ subs = << [owner |-> 1, active |-> TRUE] >>
  /\ unsubRef = 1
  /\ rejoinBusyRef = FALSE
  /\ busyTimer = FALSE
  /\ runs = {}
  /\ fetches = {[inst |-> 1, week |-> 0, src |-> "initial", n |-> 0, pc |-> "fetching",
                 snap |-> {}, out |-> "none"]}
  /\ mut = [pc |-> "idle", id |-> 0, week |-> 0, n |-> 0]
  /\ itemsFrom = [inst |-> 0, week |-> 0]
  /\ nSync = 0
  /\ syncLog = [act |-> "init", inst |-> 0, out |-> "none", n |-> 0, trace |-> <<>>,
                failed |-> {}, by |-> "none"]

\* The Board of an editor mounted online over cards of this week and the
\* next, with the cache `cache`.
BoardSynced(cache) ==
  /\ readOnly = FALSE
  /\ online = TRUE
  /\ items = cache
  /\ store = {ItemX, ItemN}
  /\ draftCell = NoCell
  /\ editId = 0
  /\ alerts = 0
  /\ tasks = {}
  /\ nOps = 0
  /\ boardLog = [act |-> "init", op |-> "none", out |-> "none", seq |-> 0]
  /\ hist = <<>>

(***************************************************************************)
(* 6. Module-level helpers: showErr and retry                              *)
(***************************************************************************)
LoadedAt      == 10000   \* Date.now() when the page was loaded
MaxNow        == 20002   \* the clock is followed up to here
MaxShows      == 3       \* calls of showErr explored
MaxRetryTries == 3       \* the largest `tries` retry is called with
NetWarnWindow == 5000    \* now - lastNetWarnAt > 5000
ClockSteps == {2500, 5001}
BaseDelays == {400, 500}
ErrKinds   == WriteOutcomes \ {"ok"}

NoRetry == [pc |-> "idle", tries |-> 0, baseMs |-> 0, i |-> 0, calls |-> <<>>, waits |-> <<>>,
            lastErr |-> [kind |-> "undefined", attempt |-> 0], result |-> 0]

HelpersIdle ==
  /\ now = LoadedAt
  /\ lastNetWarnAt = 0
  /\ errLog = <<>>
  /\ retryRun = NoRetry

\* Time passes.
ClockTick(d) ==
  /\ now + d <= MaxNow
  /\ now' = now + d
  /\ UNCHANGED <<lastNetWarnAt, errLog, retryRun>>
  /\ UNCHANGED <<cfgVars, authVars, boardVars, inpVars, syncVars>>

\* A window test that lets a warning through at exactly 5000 ms.
WindowOpenAtEnd(t, last) == t - last >= NetWarnWindow

\* if (now - lastNetWarnAt > 5000)
WindowOpen(t, last) == t - last > NetWarnWindow

\* showErr(e): a transient error is warned of on the console when the window
\* is open, and never alerted; any other error goes to console.error and to
\* one alert.
showErr(e) ==
  /\ Len(errLog) < MaxShows
  /\ IF IsTransient(e)
       THEN /\ lastNetWarnAt' = IF WindowOpen(now, lastNetWarnAt) THEN now ELSE lastNetWarnAt
            /\ errLog' = Append(errLog, [at |-> now, e |-> e, online |-> online, alerts |-> 0,
                                         console |-> IF WindowOpen(now, lastNetWarnAt)
                                                       THEN "warn" ELSE "none"])
            /\ UNCHANGED alerts
       ELSE /\ alerts' = alerts + 1
            /\ errLog' = Append(errLog, [at |-> now, e |-> e, online |-> online, alerts |-> 1,
                                         console |-> "error"])
            /\ UNCHANGED lastNetWarnAt
  /\ UNCHANGED <<now, retryRun>>
  /\ UNCHANGED <<readOnly, online, items, store, draftCell, editId, tasks, nOps, boardLog, hist>>
  /\ UNCHANGED <<cfgVars, authVars, inpVars, syncVars>>

\* const wait = baseMs * Math.pow(1.6, i), in whole ms
RetryWait(baseMs, i) == (baseMs * 16^i) \div 10^i

\* A loop that runs once more than `tries` says.
OneMoreTry(i, tries) == i <= tries

\* for (let i = 0; i < tries; i++)
MoreTries(i, tries) == i < tries

\* retry(fn, tries, baseMs) up to the await of its first fn(), or, when the
\* loop does not run at all, to `throw lastErr`.
retry(tries, baseMs) ==
  /\ retryRun.pc = "idle"
  /\ retryRun' = [NoRetry EXCEPT !.tries = tries, !.baseMs = baseMs,
                                 !.pc = IF MoreTries(0, tries) THEN "calling" ELSE "threw"]
  /\ UNCHANGED <<now, lastNetWarnAt, errLog>>
  /\ UNCHANGED <<cfgVars, authVars, boardVars, inpVars, syncVars>>

\* The pending fn() settles: `return await fn()`, or the catch: lastErr = e
\* and the wait before the next round.
AttemptDone(out) ==
  /\ retryRun.pc = "calling"
  /\ retryRun' =
       IF out = "ok"
         THEN [retryRun EXCEPT !.pc = "returned", !.calls = Append(@, out),
                               !.result = retryRun.i + 1]
         ELSE [retryRun EXCEPT !.pc = "waiting", !.calls = Append(@, out),
                               !.lastErr = [kind |-> out, attempt |-> retryRun.i + 1],
                               !.waits = Append(@, RetryWait(retryRun.baseMs, retryRun.i))]
  /\ UNCHANGED <<now, lastNetWarnAt, errLog>>
  /\ UNCHANGED <<cfgVars, authVars, boardVars, inpVars, syncVars>>

\* The wait is over: i++, then the next fn() or `throw lastErr`.
WaitDone ==
  /\ retryRun.pc = "waiting"
  /\ retryRun' = [retryRun EXCEPT !.i = @ + 1,
                                  !.pc = IF MoreTries(retryRun.i + 1, retryRun.tries)
                                           THEN "calling" ELSE "threw"]
  /\ UNCHANGED <<now, lastNetWarnAt, errLog>>
  /\ UNCHANGED <<cfgVars, authVars, boardVars, inpVars, syncVars>>

\* ---- steps of suspended runs, common to every Board specification ----
TaskSteps ==
  \/ \E t \in tasks, out \in WriteOutcomes : WriteDone(t, out)
  \/ \E t \in tasks, out \in WriteOutcomes : RefreshServe(t, out)
  \/ \E t \in tasks : RefreshDeliver(t)

(***************************************************************************)
(* Specifications                                                          *)
(***************************************************************************)
\* The configuration loader, from the first render of the page.
InitConfig == InitCfg /\ InitAuth /\ BoardIdle /\ InpIdle /\ SyncIdle /\ HelpersIdle
SpecConfig == InitConfig /\ [][NextCfg]_vars

\* The session manager, from the first render of the page.
InitSession == InitCfg /\ centerSlug = "a" /\ InitAuth /\ BoardIdle /\ InpIdle /\ SyncIdle /\ HelpersIdle
SpecAuth == InitSession /\ [][NextAuth]_vars

\* The Board and all its mutation handlers; the user starts a handler when
\* the previous run has finished.
InitBoard == PageLoaded /\ BoardMounted /\ InpIdle /\ SyncIdle /\ HelpersIdle
CanStart == nOps < MaxBoardOps /\ tasks = {}
NextBoard ==
  \/ \E v \in FormVals : CanStart /\ onSubmitAdd(v)
  \/ \E it \in items, v \in FormVals : CanStart /\ onSubmitEdit(it, v)
  \/ \E it \in items, c \in BOOLEAN : CanStart /\ doDelete(it, c)
  \/ \E it \in items : CanStart /\ doToggleDone(it)
  \/ \E it \in items : CanStart /\ moveOneUp(it)
  \/ \E it \in items : CanStart /\ moveOneDown(it)
  \/ \E it \in items : CanStart /\ moveRowUp(it)
  \/ \E it \in items : CanStart /\ moveRowDown(it)
  \/ \E it \in items : CanStart /\ moveDayLeft(it)
  \/ \E it \in items : CanStart /\ moveDayRight(it)
  \/ TaskSteps
  \/ \E r \in {"viewer", "editor"} : SetRole(r)
  \/ ToggleReadOnly
  \/ SetOnline
  \/ \E c \in DraftCells \cup {NoCell} : SetDraftCell(c)
SpecBoard == InitBoard /\ [][NextBoard]_vars

\* The user starts one of a few handlers when the previous run has finished.
CanStartOne == nOps < MaxOps /\ tasks = {}

\* doToggleDone under changing role, read-only mode and connectivity.
NextToggle ==
  \/ \E it \in items : CanStartOne /\ doToggleDone(it)
  \/ TaskSteps
  \/ \E r \in {"viewer", "editor"} : SetRole(r)
  \/ ToggleReadOnly
  \/ SetOnline
SpecToggle == InitBoard /\ [][NextToggle]_vars

\* Adding and deleting cards.
NextAdd ==
  \/ \E v \in FormVals : CanStartOne /\ onSubmitAdd(v)
  \/ \E it \in items : CanStartOne /\ doDelete(it, TRUE)
  \/ TaskSteps
  \/ \E c \in DraftCells \cup {NoCell} : SetDraftCell(c)
SpecAdd == InitBoard /\ [][NextAdd]_vars

\* An editor moving cards; the store also holds a card of an inactive room.
InitMove ==
  /\ PageLoaded
  /\ BoardMountedOn({ItemX, ItemY, ItemZ, ItemV, ItemH})
  /\ InpIdle
  /\ SyncIdle
  /\ HelpersIdle
  /\ role = "editor"
  /\ readOnly = FALSE

\* An editor reordering a cell of three cards.
InitSwap ==
  /\ PageLoaded
  /\ BoardMountedOn({ItemX, ItemY, ItemW, ItemZ})
  /\ InpIdle
  /\ SyncIdle
  /\ HelpersIdle
  /\ role = "editor"
  /\ readOnly = FALSE

\* Moving cards up and down within their cell.
NextSwap ==
  \/ \E it \in items : CanStartOne /\ moveOneUp(it)
  \/ \E it \in items : CanStartOne /\ moveOneDown(it)
  \/ TaskSteps
SpecSwap == InitSwap /\ [][NextSwap]_vars

\* Moving cards to another room or another day.
NextCross ==
  \/ \E it \in items : CanStartOne /\ moveRowUp(it)
  \/ \E it \in items : CanStartOne /\ moveRowDown(it)
  \/ \E it \in items : CanStartOne /\ moveDayLeft(it)
  \/ \E it \in items : CanStartOne /\ moveDayRight(it)
  \/ TaskSteps
SpecCross == InitMove /\ [][NextCross]_vars

\* Admission, discharge and re-admission from two clients.
InitInpatient == PageLoaded /\ BoardIdle /\ InpMounted /\ SyncIdle /\ HelpersIdle
NextInpatient ==
  \/ \E c \in Clients, it \in SrcItems : toggleInpatient(c, it)
  \/ \E t \in inpTasks, ok \in BOOLEAN : ToggleUpdateDone(t, ok)
  \/ \E t \in inpTasks, sent \in BOOLEAN : ToggleInsertDone(t, sent)
  \/ \E t \in inpTasks, ok \in BOOLEAN : InpFetchServe(t, ok)
  \/ \E t \in inpTasks : InpFetchDeliver(t)
  \/ \E t \in inpTasks : InpLookupDone(t)
  \/ \E c \in Clients : \E row \in inpList[c] : dischargeInpatient(c, row)
  \/ \E t \in inpTasks, ok \in BOOLEAN : DischargeDone(t, ok)
SpecInpatient == InitInpatient /\ [][NextInpatient]_vars

\* One client toggling two board items; every request is answered.
TwoItems == {1, 2}
NextToggleTwo ==
  \/ \E it \in TwoItems : toggleInpatient(1, it)
  \/ \E t \in inpTasks, ok \in BOOLEAN : ToggleUpdateDone(t, ok)
  \/ \E t \in inpTasks, sent \in BOOLEAN : ToggleInsertDone(t, sent)
  \/ \E t \in inpTasks, ok \in BOOLEAN : InpFetchServe(t, ok)
  \/ \E t \in inpTasks : InpFetchDeliver(t)
  \/ \E t \in inpTasks : InpLookupDone(t)
SpecToggleTwo ==
  /\ InitInpatient
  /\ [][NextToggleTwo]_vars
  /\ WF_vars(\E t \in inpTasks, ok \in BOOLEAN : ToggleUpdateDone(t, ok))
  /\ WF_vars(\E t \in inpTasks, sent \in BOOLEAN : ToggleInsertDone(t, sent))
  /\ WF_vars(\E t \in inpTasks, ok \in BOOLEAN : InpFetchServe(t, ok))
  /\ WF_vars(\E t \in inpTasks : InpFetchDeliver(t))
  /\ WF_vars(\E t \in inpTasks : InpLookupDone(t))

\* Editing the fields of the listed inpatients.
InitDebounce == PageLoaded /\ BoardIdle /\ InpModalOpen /\ SyncIdle /\ HelpersIdle
NextDebounce ==
  \/ \E r \in RowIds, p \in FieldPatches : updateInpatientFieldDebounced(r, p)
  \/ \E r \in RowIds : TimerFires(r)
  \/ \E t \in inpTasks, ok \in BOOLEAN : SaveDone(t, ok)
SpecDebounce == InitDebounce /\ [][NextDebounce]_vars

\* The sync effect with realtime only: notifications, connectivity, a change
\* of week, a toggle and disposal.
InitRefresh == PageLoaded /\ role = "editor" /\ BoardSynced({}) /\ InpIdle /\ SyncMountedPlain /\ HelpersIdle
NextRefresh ==
  \/ \E s \in DOMAIN subs : Notify(s)
  \/ GoOffline
  \/ GoOnline
  \/ \E f \in fetches, out \in WriteOutcomes : FetchServe(f, out)
  \/ \E f \in fetches : FetchDeliver(f)
  \/ \E w \in WeekStarts : ChangeWeek(w)
  \/ Unmount
  \/ \E it \in items : toggleDoneAt(it)
  \/ \E out \in WriteOutcomes : ToggleAnswered(out)
SpecRefresh == InitRefresh /\ [][NextRefresh]_vars

\* The sync effect with poll timer and rejoin protocol.
InitRejoin == PageLoaded /\ role = "editor" /\ BoardSynced({ItemX}) /\ InpIdle /\ SyncMounted /\ HelpersIdle
NextRejoin ==
  \/ \E i \in DOMAIN insts : PollTick(i)
  \/ \E i \in DOMAIN insts, g \in RejoinTriggers : rejoin(i, g)
  \/ GoOffline
  \/ GoOnline
  \/ \E r \in runs : RejoinSettled(r)
  \/ \E r \in runs, ok \in BOOLEAN, dOk \in BOOLEAN, cOk \in BOOLEAN, z \in ResubOutcomes :
       SessionDone(r, ok, dOk, cOk, z)
  \/ BusyReset
  \/ \E f \in fetches, out \in WriteOutcomes : FetchServe(f, out)
  \/ \E f \in fetches : FetchDeliver(f)
  \/ \E w \in WeekStarts : ChangeWeek(w)
  \/ Unmount
  \/ \E it \in items : toggleDoneAt(it)
  \/ \E out \in WriteOutcomes : ToggleAnswered(out)
SpecRejoin == InitRejoin /\ [][NextRejoin]_vars

\* The same, with every await of a rejoin run settling and every timer
\* firing.
SpecRejoinFair ==
  /\ SpecRejoin
  /\ WF_vars(\E r \in runs : RejoinSettled(r))
  /\ WF_vars(\E r \in runs, ok \in BOOLEAN, dOk \in BOOLEAN, cOk \in BOOLEAN, z \in ResubOutcomes :
               SessionDone(r, ok, dOk, cOk, z))
  /\ WF_vars(\E f \in fetches, out \in WriteOutcomes : FetchServe(f, out))
  /\ WF_vars(\E f \in fetches : FetchDeliver(f))
  /\ WF_vars(BusyReset)

\* Answers that raise no alert: success and a network failure. (A fatal
\* failure differs from the latter by the alert only, and the number of
\* alerts grows with every one of them.)
QuietOutcomes == {"ok", "transient"}

\* The sync effect with its poll timer over a long time: the timer keeps
\* firing while it is set, an answer that has arrived is handled, be it a
\* result or an error (the continuation of a settled promise runs, whatever
\* other answers arrive meanwhile), and a client that keeps asking is
\* answered successfully again and again.
NextPoll ==
  \/ \E i \in DOMAIN insts : PollFires(i)
  \/ \E s \in DOMAIN subs : Notify(s)
  \/ \E it \in store : RemoteWrite(it.id)
  \/ GoOffline
  \/ GoOnline
  \/ \E f \in fetches, out \in QuietOutcomes : FetchServe(f, out)
  \/ \E f \in fetches : FetchDeliver(f)
  \/ \E w \in WeekStarts : ChangeWeek(w)
  \/ Unmount
  \/ \E it \in items : toggleDoneAt(it)
  \/ \E out \in QuietOutcomes : ToggleAnswered(out)
SpecPoll ==
  /\ InitRejoin
  /\ [][NextPoll]_vars
  /\ WF_vars(\E i \in DOMAIN insts : PollFires(i))
  /\ WF_vars(\E f \in fetches : f.pc = "fetched" /\ FetchDeliver(f))
  /\ WF_vars(\E f \in fetches : f.pc = "fetchFailed" /\ FetchDeliver(f))
  /\ SF_vars(\E f \in fetches : FetchServe(f, "ok"))

\* showErr called at any time with any error, online or offline.
InitShowErr == PageLoaded /\ BoardMounted /\ InpIdle /\ SyncIdle /\ HelpersIdle
NextShowErr ==
  \/ \E e \in ErrKinds : showErr(e)
  \/ \E d \in ClockSteps : ClockTick(d)
  \/ SetOnline
SpecShowErr == InitShowErr /\ [][NextShowErr]_vars

\* One call of retry; every fn() settles and every timer fires.
NextRetry ==
  \/ \E n \in 0..MaxRetryTries, b \in BaseDelays : retry(n, b)
  \/ \E out \in WriteOutcomes : AttemptDone(out)
  \/ WaitDone
SpecRetry ==
  /\ InitShowErr
  /\ [][NextRetry]_vars
  /\ WF_vars(\E out \in WriteOutcomes : AttemptDone(out))
  /\ WF_vars(WaitDone)

(***************************************************************************)
(* Properties                                                              *)
(***************************************************************************)
PendingLoads == {i \in DOMAIN loads : loads[i].status = "pending"}
WaitingCallers == {c \in DOMAIN callers : callers[c].state = "waiting"}

\* C1: loadConfig is single-flight. At most one fetch sequence is executing
\* at any time, the in-flight marker designates it, every call that has not
\* yet been answered awaits that one sequence, and a call made while a
\* sequence was executing started none of its own (there are exactly as many
\* fetch sequences as calls that found no sequence in flight).
C1_SingleFlight ==
  /\ Cardinality(PendingLoads) <= 1
  /\ \A c \in WaitingCallers :
       /\ callers[c].load = loadingCenterRef
       /\ callers[c].load \in PendingLoads
  /\ \A c \in DOMAIN callers : callers[c].joined => callers[c].load < c
  /\ Len(loads) = Cardinality({c \in DOMAIN callers : ~callers[c].joined})

\* Two overlapping calls for the same board wait for one fetch sequence that
\* is already past its first query.
C1_Witness ==
  \E c1, c2 \in WaitingCallers :
     /\ c1 < c2
     /\ callers[c1].slug = callers[c2].slug
     /\ callers[c1].load = callers[c2].load
     /\ callers[c2].joined
     /\ loads[callers[c1].load].stage >= 2
     /\ Len(loads) = 1

\* C2: the in-flight marker is cleared when the load ends, on success and on
\* failure alike: the marker is set exactly while a fetch sequence is
\* pending, so once a load has settled the next call starts a fresh
\* sequence, and no call is left waiting on a settled load.
C2_MarkerCleared ==
  /\ (PendingLoads = {}) => loadingCenterRef = 0
  /\ loadingCenterRef # 0 => loadingCenterRef \in PendingLoads
  /\ \A c \in DOMAIN callers :
       loads[callers[c].load].status # "pending" => callers[c].state # "waiting"
  /\ cfgLog.act = "effect" /\ PendingLoads # {} /\ Len(loads) > 1
       /\ loads[Len(loads) - 1].status # "pending" /\ ~callers[Len(callers)].joined
       => loadingCenterRef = Len(loads)

\* A load failed, the marker was cleared, and the next call has just started
\* a fresh fetch sequence.
C2_Witness ==
  /\ cfgLog.act = "effect"
  /\ Len(loads) > 1
  /\ loads[Len(loads) - 1].status \in {"transient", "fatal"}
  /\ loads[Len(loads)].status = "pending"
  /\ loadingCenterRef = Len(loads)
  /\ ~callers[Len(callers)].joined

\* C3: the loader is keyed by the board slug. A call for one slug is never
\* answered with a load started for another slug, and a response of a load
\* started for a slug that is no longer the current one is never applied to
\* the local state.
C3_KeyedBySlug ==
  /\ \A c \in DOMAIN callers : loads[callers[c].load].slug = callers[c].slug
  /\ cfgLog.act = "applied" => cfgLog.slug = centerSlug

\* C4: while a session persists, a role lookup that ends late in failure or
\* timeout never takes the role from editor back to viewer.
C4_NoRegression ==
  (/\ authLog.act = "lookupDone"
   /\ authLog.hasUser
   /\ authLog.wasAlive
   /\ authLog.out \in {"error", "timeout"}
   /\ authLog.prevRole = "editor")
  => role # "viewer"

\* C5: with a session whose role lookup times out, the role at the end of the
\* timeout window is viewer, the page is not blocked (authReady) and the
\* upgrade ladder is running; while a lookup is pending the page is never
\* blocked; and a ladder lookup answering editor makes the role editor.
C5_ViewerThenUpgrade ==
  /\ (authLog.act = "lookupDone" /\ authLog.out = "timeout" /\ authLog.hasUser
        /\ authLog.wasAlive)
       => (role = "viewer" /\ authReady /\ ladder.active)
  /\ \A n \in DOMAIN resolutions : resolutions[n].pc = "lookup" => authReady
  /\ (authLog.act = "ladderDone" /\ authLog.out = "editor" /\ authLog.wasAlive)
       => role = "editor"

\* The bootstrap's lookup timed out and a later ladder lookup has just made
\* the role editor.
C5_Witness ==
  /\ resolutions[1].kind = "boot"
  /\ resolutions[1].out = "timeout"
  /\ Len(resolutions) = 1
  /\ authLog.act = "ladderDone"
  /\ authLog.out = "editor"
  /\ role = "editor"

\* C6: the upgrade ladder is bounded. A run issues at most six role
\* re-queries; it ends at the first editor answer; it ends after six answers
\* that are not editor; and the only role a ladder step writes is editor.
C6_LadderBounded ==
  /\ ladder.queries <= MaxTries
  /\ ladder.active => ladder.i < MaxTries
  /\ (authLog.act = "ladderDone" /\ authLog.out = "editor") => ~ladder.active
  /\ (authLog.act = "ladderDone" /\ authLog.prevQueries >= MaxTries) => ~ladder.active
  /\ authLog.act = "ladderDone" => authLog.prevQueries <= MaxTries
  /\ authLog.act \in {"ladderWake", "ladderDone"}
       => (role = authLog.prevRole \/ role = "editor")

\* The sixth re-query of a run has just answered something other than editor
\* and the run has ended with the role still viewer.
C6_Witness ==
  /\ authLog.act = "ladderDone"
  /\ authLog.wasAlive
  /\ authLog.prevQueries = MaxTries
  /\ authLog.out # "editor"
  /\ ~ladder.active
  /\ role = "viewer"

\* C7: on the bootstrap and on every auth event the role is set at once to
\* viewer when the session has a user and to unknown when it has none; with a
\* user the role lookup is issued in the same step, without a user no remote
\* query is made; and a lookup that fails or times out yields viewer instead
\* of an error.
C7_OptimisticRole ==
  /\ (authLog.act \in {"event", "boot"} /\ authLog.wasAlive /\ authLog.hasUser)
       => /\ role = "viewer"
          /\ authReady
          /\ roleQueries = authLog.prevQueries + 1
          /\ \E n \in DOMAIN resolutions : resolutions[n].pc = "lookup"
  /\ (authLog.act \in {"event", "boot"} /\ authLog.wasAlive /\ ~authLog.hasUser)
       => /\ role = "unknown"
          /\ authReady
          /\ roleQueries = authLog.prevQueries
  /\ (authLog.act = "lookupDone" /\ authLog.wasAlive
        /\ authLog.out \in {"error", "timeout"})
       => role = "viewer"

\* An auth event with a user has just arrived while the role was editor: the
\* role is viewer and the lookup is pending.
C7_Witness ==
  /\ authLog.act = "event"
  /\ authLog.hasUser
  /\ authLog.prevRole = "editor"
  /\ role = "viewer"
  /\ resolutions[Len(resolutions)].pc = "lookup"

GatedOps == {"add", "edit", "delete", "moveOneUp", "moveOneDown", "moveRowUp",
             "moveRowDown", "moveDayLeft", "moveDayRight"}

\* C8: each of add, update, delete, moveOneUp/Down, moveRowUp/Down and
\* moveDayLeft/Right checks effectiveRole = editor first and otherwise is a
\* silent no-op: a run started with another effective role issues no remote
\* call and raises no error.
C8_WriteBoundary ==
  /\ \A t \in tasks : t.op \in GatedOps => t.eff = "editor"
  /\ (boardLog.act \in {"issue", "throw", "return"} /\ boardLog.op \in GatedOps
        /\ EffectiveRole # "editor")
       => boardLog.act = "return"

\* C9: toggleDone is open to viewers and editors. With the session role
\* viewer it only ever calls the restricted remote procedure, never the
\* generic update; with the session role editor it issues one generic update
\* that writes the negation of the cached done value; and after the write
\* succeeded the handler calls refresh, which fetches the week when the board
\* is online.
C9_ToggleDone ==
  /\ \A t \in tasks : (t.op = "toggleDone" /\ t.pc = "write") =>
       /\ Len(t.writes) = 1
       /\ t.role # "editor" => t.writes[1].k = "rpc"
       /\ t.role = "editor" => t.writes[1].k = "update"
  /\ (boardLog.act = "issue" /\ boardLog.op = "toggleDone") =>
       \E t \in tasks :
          /\ t.seq = boardLog.seq
          /\ t.role = role
          /\ \E i \in items :
                /\ i.id = t.writes[1].id
                /\ role = "editor" => t.writes[1].patch = [done |-> ~i.done]
  /\ (boardLog.act = "written" /\ boardLog.op = "toggleDone" /\ RefreshStarts) =>
       \E t \in tasks : t.seq = boardLog.seq /\ t.pc = "fetching"

\* An editor in read-only mode has toggled a card with the generic update,
\* the write has succeeded and the refresh is fetching.
C9_Witness ==
  /\ boardLog.act = "written"
  /\ boardLog.op = "toggleDone"
  /\ \E t \in tasks : /\ t.seq = boardLog.seq
                      /\ t.pc = "fetching"
                      /\ t.role = "editor"
                      /\ t.eff = "viewer"

\* C10: add writes the new item with ord = 1 when the cached cell is empty
\* and otherwise with the greatest cached ord of the cell plus one, which is
\* strictly greater than every cached ord of the cell.
C10_AddOrd ==
  (boardLog.act = "issue" /\ boardLog.op = "add") =>
    \E t \in tasks :
       /\ t.seq = boardLog.seq
       /\ LET new  == t.writes[1].item
              cell == {i \in items : i.day = new.day /\ i.row = new.row}
          IN  /\ new.day = draftCell.day /\ new.row = draftCell.row
              /\ cell = {} => new.ord = 1
              /\ cell # {} => \E i \in cell : new.ord = i.ord + 1
              /\ \A i \in cell : new.ord > i.ord

\* A card has just been added to a cached cell whose greatest ord exceeds
\* the number of its cards.
C10_Witness ==
  /\ boardLog.act = "issue"
  /\ boardLog.op = "add"
  /\ \E t \in tasks :
       /\ t.seq = boardLog.seq
       /\ LET new  == t.writes[1].item
              cell == {i \in items : i.day = new.day /\ i.row = new.row}
          IN  /\ cell # {}
              /\ new.ord > Cardinality(cell) + 1

\* A card whose name, room and dx are all empty once trimmed.
BlankCard(i) == i.name \in {"", " "} /\ i.room \in {"", " "} /\ i.dx \in {"", " "}

\* C11: add is rejected when name, room and dx are all empty after trimming.
\* No insert of such a card is ever issued and the store never holds one; a
\* rejected add prompts the user with one alert, issues no remote write,
\* starts no refresh and leaves the store as it was.
C11_EmptyAddRejected ==
  /\ \A t \in tasks : (t.op = "add" /\ t.pc = "write") => ~BlankCard(t.writes[1].item)
  /\ \A i \in store : ~BlankCard(i)
  /\ \A k \in DOMAIN hist : (hist[k].op = "add" /\ hist[k].res = "reject") =>
       /\ hist[k].post = hist[k].pre
       /\ hist[k].view = "none"
       /\ \A t \in tasks : t.seq # k
       /\ (boardLog.act = "reject" /\ boardLog.seq = k) =>
            (alerts = hist[k].alerts + 1 /\ store = hist[k].pre /\ items = hist[k].cache)

\* An editor has just submitted the add form of a draft cell with blank
\* texts and was prompted.
C11_Witness ==
  /\ boardLog.act = "reject"
  /\ boardLog.op = "add"
  /\ draftCell # NoCell
  /\ EffectiveRole = "editor"
  /\ hist[boardLog.seq].res = "reject"
  /\ alerts = hist[boardLog.seq].alerts + 1

ItemOf(S, id) == CHOOSE i \in S : i.id = id
CellOf(S, i) == {j \in S : j.day = i.day /\ j.row = i.row}
DistinctOrds(C) == \A a, b \in C : a.id # b.id => a.ord # b.ord
\* b sorts immediately after a in the cell C.
NextTo(C, a, b) == a.ord < b.ord /\ ~\E c \in C : a.ord < c.ord /\ c.ord < b.ord
\* The items S with the ords of a and b exchanged.
Exchanged(S, a, b) ==
  (S \ {a, b}) \cup {[a EXCEPT !.ord = b.ord], [b EXCEPT !.ord = a.ord]}

\* A run of op that started from a fresh cache on a card of a cell with
\* pairwise distinct ords.
CleanRun(k, op) ==
  /\ hist[k].op = op
  /\ hist[k].cache = ListWeek(hist[k].pre)
  /\ \E i \in hist[k].cache : i.id = hist[k].id
  /\ DistinctOrds(CellOf(hist[k].pre, ItemOf(hist[k].pre, hist[k].id)))

\* What a completed run k that moved its card past the neighbour nb must
\* have left: the two ords exchanged and nothing else changed, and, once its
\* refresh has delivered, the pair rendered in the new order `first` before
\* `second` with nothing between them.
SwapDone(k, it, nb, firstId, secondId) ==
  /\ hist[k].post = Exchanged(hist[k].pre, it, nb)
  /\ (boardLog.act = "delivered" /\ boardLog.seq = k /\ hist[k].view = "fetched")
       => /\ items = ListWeek(hist[k].post)
          /\ NextTo(CellOf(items, ItemOf(items, it.id)),
                    ItemOf(items, firstId), ItemOf(items, secondId))

\* C12: with a fresh cache, a cell of distinct ords and no other mutation, a
\* moveOneUp whose two writes succeeded leaves the moved card with its
\* predecessor's ord and the predecessor with the moved card's ord, every
\* other card unchanged, and the next fetch renders the moved card
\* immediately before its former predecessor; moveOneDown does the same with
\* the successor; on the first (last) card of a cell moveOneUp (moveOneDown)
\* returns without any remote write, and only then.
C12_SwapWithNeighbour ==
  \A k \in DOMAIN hist :
     /\ CleanRun(k, "moveOneUp") =>
          LET it   == ItemOf(hist[k].pre, hist[k].id)
              cell == CellOf(hist[k].pre, it)
              prevs == {p \in cell : NextTo(cell, p, it)}
          IN  /\ hist[k].res = "return" <=> prevs = {}
              /\ hist[k].res = "return" => hist[k].post = hist[k].pre
              /\ hist[k].res = "ok" =>
                   \E p \in prevs : SwapDone(k, it, p, it.id, p.id)
     /\ CleanRun(k, "moveOneDown") =>
          LET it   == ItemOf(hist[k].pre, hist[k].id)
              cell == CellOf(hist[k].pre, it)
              nexts == {n \in cell : NextTo(cell, it, n)}
          IN  /\ hist[k].res = "return" <=> nexts = {}
              /\ hist[k].res = "return" => hist[k].post = hist[k].pre
              /\ hist[k].res = "ok" =>
                   \E n \in nexts : SwapDone(k, it, n, n.id, it.id)

\* moveOneUp(Y) on the cell X.ord = 1, Y.ord = 2 has completed and its
\* refresh has delivered X.ord = 2, Y.ord = 1.
C12_Witness ==
  /\ boardLog.act = "delivered"
  /\ Len(hist) = 1
  /\ CleanRun(1, "moveOneUp")
  /\ hist[1].id = ItemY.id
  /\ hist[1].res = "ok"
  /\ hist[1].view = "fetched"
  /\ [ItemX EXCEPT !.ord = 2] \in items
  /\ [ItemY EXCEPT !.ord = 1] \in items

\* moveOneUp of run k followed by moveOneDown of run k + 1 on the same card,
\* both from a fresh cache, with no other mutation between or during them.
UpThenDown(k) ==
  /\ k + 1 \in DOMAIN hist
  /\ CleanRun(k, "moveOneUp")
  /\ CleanRun(k + 1, "moveOneDown")
  /\ hist[k + 1].id = hist[k].id
  /\ hist[k + 1].pre = hist[k].post

\* C13 (as stated): for every card, moveOneUp followed by moveOneDown on the
\* same card, each run completing (a swap whose writes succeeded, or the
\* no-op at the edge of the cell), leaves every ord as before the two moves.
C13_UpDownRestores ==
  \A k \in DOMAIN hist :
     (/\ UpThenDown(k)
      /\ hist[k].res \in {"ok", "return"}
      /\ hist[k + 1].res \in {"ok", "return"})
     => hist[k + 1].post = hist[k].pre

\* C13 (amended): for every card that has a predecessor in its cell,
\* moveOneUp followed by moveOneDown on the same card, the writes of both
\* succeeding, leaves every ord as before the two moves.
C13_UpDownRestoresAfterSwap ==
  \A k \in DOMAIN hist :
     (/\ UpThenDown(k)
      /\ hist[k].res = "ok"
      /\ hist[k + 1].res = "ok")
     => hist[k + 1].post = hist[k].pre

\* moveOneUp(Y) and then moveOneDown(Y) have both swapped and the store is
\* as before.
C13_Witness ==
  /\ Len(hist) = 2
  /\ UpThenDown(1)
  /\ hist[1].res = "ok"
  /\ hist[2].res = "ok"
  /\ hist[1].post # hist[1].pre
  /\ store = hist[1].pre

\* C14: once the add and move operations have completed and a refresh has
\* run, the cards of each cell have pairwise distinct ords.
C14_DistinctOrdsAtRest ==
  (/\ tasks = {}
   /\ Len(hist) > 0
   /\ \A k \in DOMAIN hist : hist[k].res \in {"ok", "return"}
   /\ items = ListWeek(store))
  => \A i \in store : DistinctOrds(CellOf(store, i))

\* Day numbers count from the Monday of the visible week, so a day is a
\* Saturday or a Sunday when it is 5 or 6 modulo 7.
Weekend(d) == d % 7 \in {5, 6}
Monday == 0
Friday == 4

\* The run recorded as k is the one that has just issued its write, and the
\* write is one update of the card it was called with.
JustIssued(k, t) ==
  /\ boardLog.act = "issue"
  /\ boardLog.seq = k
  /\ t.seq = k
  /\ Len(t.writes) = 1
  /\ t.writes[1].k = "update"
  /\ t.writes[1].id = hist[k].id

\* The store S with field f of the card `it` set to v.
WithField(S, it, f, v) == (S \ {it}) \cup {[it EXCEPT ![f] = v]}

\* C15: moveDayLeft / moveDayRight on a cached card of a visible day
\* (Monday..Friday) always write, and write only the day: the previous
\* (next) day from an interior day, the Friday three days earlier from
\* Monday, the Monday three days later from Friday, never a Saturday or a
\* Sunday; a run whose write succeeded changed nothing else in the store.
C15_DayMoves ==
  \A k \in DOMAIN hist :
     \A op \in {"moveDayLeft", "moveDayRight"} :
        (/\ hist[k].op = op
         /\ \E i \in hist[k].cache : i.id = hist[k].id /\ i.day \in Monday..Friday)
        => LET it   == ItemOf(hist[k].cache, hist[k].id)
               dest == IF op = "moveDayLeft"
                       THEN (IF it.day = Monday THEN it.day - 3 ELSE it.day - 1)
                       ELSE (IF it.day = Friday THEN it.day + 3 ELSE it.day + 1)
           IN  /\ ~Weekend(dest)
               /\ hist[k].res \in {"running", "ok", "failed"}
               /\ \A t \in tasks : JustIssued(k, t) => t.writes[1].patch = [day |-> dest]
               /\ (hist[k].res = "ok" /\ it \in hist[k].pre)
                    => hist[k].post = WithField(hist[k].pre, it, "day", dest)

\* moveDayLeft has moved card X from the Monday of the visible week to the
\* Friday before it.
C15_Witness ==
  /\ Len(hist) = 1
  /\ hist[1].op = "moveDayLeft"
  /\ hist[1].id = ItemX.id
  /\ hist[1].res = "ok"
  /\ [ItemX EXCEPT !.day = -3] \in store

\* The rooms before and after room r in the configured room order; empty
\* when r is the first / last room or is not configured.
RoomBefore(r) == {rows[j] : j \in {n \in DOMAIN rows : n + 1 \in DOMAIN rows /\ rows[n + 1] = r}}
RoomAfter(r) == {rows[j] : j \in {n \in DOMAIN rows : n - 1 \in DOMAIN rows /\ rows[n - 1] = r}}

\* C16: moveRowUp / moveRowDown write only the row of the card, the room
\* before / after its own in the configured order, and a run whose write
\* succeeded changed nothing else in the store; the run returns without a
\* remote write exactly when the card is in the first / last room or its row
\* is not a configured room.
C16_RowMoves ==
  \A k \in DOMAIN hist :
     \A op \in {"moveRowUp", "moveRowDown"} :
        (/\ hist[k].op = op
         /\ \E i \in hist[k].cache : i.id = hist[k].id)
        => LET it    == ItemOf(hist[k].cache, hist[k].id)
               dests == IF op = "moveRowUp" THEN RoomBefore(it.row) ELSE RoomAfter(it.row)
           IN  /\ hist[k].res = "return" <=> dests = {}
               /\ hist[k].res = "return" => hist[k].post = hist[k].pre
               /\ \A t \in tasks : JustIssued(k, t) =>
                     \E r \in dests : t.writes[1].patch = [row |-> r]
               /\ (hist[k].res = "ok" /\ it \in hist[k].pre)
                    => \E r \in dests : hist[k].post = WithField(hist[k].pre, it, "row", r)

\* moveRowDown has moved card Y to the second room with its ord, day and
\* texts unchanged, and moveRowDown on the card of the inactive room has
\* returned without a write.
C16_Witness ==
  /\ Len(hist) = 2
  /\ hist[1].op = "moveRowDown"
  /\ hist[1].id = ItemY.id
  /\ hist[1].res = "ok"
  /\ [ItemY EXCEPT !.row = "B"] \in store
  /\ hist[2].op = "moveRowDown"
  /\ hist[2].id = ItemH.id
  /\ hist[2].res = "return"

\* The toggleInpatient runs of a client on an item that are suspended.
TogglesOf(c, it) == {t \in inpTasks : t.kind = "toggle" /\ t.client = c /\ t.item = it}

\* C17: admitting is idempotent under racing admit calls. The store never
\* holds two active records of one source item; every admit whose insert the
\* store has answered, with an acceptance or with the uniqueness conflict,
\* leaves exactly one active record of the item and the item shown as admitted
\* on the calling client; a conflict is never thrown, and no call raises an
\* alert.
C17_AdmitIdempotent ==
  /\ \A it \in SrcItems : Cardinality(ActiveOf(inp, it)) <= 1
  /\ alerts = 0
  /\ inpLog.out \in {"ok", "23505"} /\ inpLog.act \in {"insertDone", "insertThrown"} =>
       /\ inpLog.act = "insertDone"
       /\ Cardinality(ActiveOf(inp, inpLog.item)) = 1
       /\ inpLog.item \in inpSet[inpLog.client]

\* Two clients admit the same item at once: the second insert has just been
\* refused while the run of the first client is still in flight.
C17_Witness ==
  /\ inpLog.act = "insertDone" /\ inpLog.out = "23505"
  /\ \E c \in Clients \ {inpLog.client} :
       /\ TogglesOf(c, inpLog.item) # {}
       /\ inpLog.item \in inpSet[c]
  /\ Cardinality(ActiveOf(inp, inpLog.item)) = 1

\* C18: an insert refused with code 23505 completes like an accepted one: the
\* item joins the admitted set of the client and the run goes on to await
\* refreshInpatients, still holding its in-flight key. After any other insert
\* error the admitted set is as it was, no list is fetched and the key is
\* released.
C18_ConflictIsSuccess ==
  /\ inpLog.act = "insertDone" =>
       /\ inpSet[inpLog.client] = inpLog.prevSet \cup {inpLog.item}
       /\ \E t \in TogglesOf(inpLog.client, inpLog.item) : t.pc = "fetching"
       /\ inpLog.item \in inFlight[inpLog.client]
  /\ inpLog.act \in {"insertDone", "insertThrown"} /\ inpLog.out = "error" =>
       /\ inpSet[inpLog.client] = inpLog.prevSet
       /\ TogglesOf(inpLog.client, inpLog.item) = {}
       /\ inpLog.item \notin inFlight[inpLog.client]
       /\ inp = inpLog.prevStore

\* An insert refused because another client had already admitted the item.
C18_Witness ==
  /\ inpLog.act = "insertDone" /\ inpLog.out = "23505"
  /\ inpLog.item \notin inpLog.prevSet
  /\ inpLog.item \in inpSet[inpLog.client]
  /\ inp = inpLog.prevStore

\* C19: discharge is a soft delete. No step removes a record of the inpatients
\* table or changes its id or source item, so the number of records never
\* decreases; a step changes a record at most by turning is_active from true
\* to false and stamping discharged_at; a record that is inactive stays
\* inactive, so a re-admission can only add a new record.
C19_SoftDelete ==
  [][/\ Cardinality(inp') >= Cardinality(inp)
     /\ \A r \in inp : \E q \in inp' :
          /\ q.id = r.id /\ q.src = r.src /\ q.bed = r.bed /\ q.dx = r.dx
          /\ q.active => r.active /\ q = r
          /\ ~q.active => q.discharged]_vars

\* An item discharged and admitted again: its discharged record is kept next
\* to the new active one.
C19_Witness ==
  \E r \in inp, q \in inp :
    /\ r.src = q.src /\ r.id # q.id
    /\ ~r.active /\ r.discharged
    /\ q.active /\ ~q.discharged

Events(act) == {p \in DOMAIN debLog : debLog[p].act = act}
FieldOf(r, f) == IF f = "bed" THEN r.bed ELSE r.dx

\* The last event of a row before position p of debLog (0 when there is none).
PrevOf(row, p) ==
  LET before == {i \in 1..(p - 1) : debLog[i].row = row} IN
  IF before = {} THEN 0 ELSE CHOOSE i \in before : \A j \in before : j <= i

\* C20: the debounced persister. A schedule shows its patch in the local list
\* at once; the timer of a row is pending exactly when the last event of that
\* row is a schedule, and it then carries that schedule's patch, whatever
\* happened to other rows; a timer that fires sends one write, with the patch
\* of the schedule that immediately precedes it on its row; a schedule
\* followed by another schedule of the same row is never sent.
C20_Debounce ==
  /\ \A p \in Events("schedule") : \A x \in debLog[p].view :
       x.id = debLog[p].row => FieldOf(x, debLog[p].patch.f) = debLog[p].patch.v
  /\ \A r \in RowIds :
       LET last == PrevOf(r, Len(debLog) + 1) IN
       IF last > 0 /\ debLog[last].act = "schedule"
         THEN timers[r] = [n |-> debLog[last].n, patch |-> debLog[last].patch]
         ELSE timers[r] = NoTimer
  /\ \A p \in Events("fire") :
       LET i == PrevOf(debLog[p].row, p) IN
       /\ i > 0 /\ debLog[i].act = "schedule"
       /\ debLog[i].n = debLog[p].n /\ debLog[i].patch = debLog[p].patch
  /\ \A p \in Events("fire"), q \in Events("fire") : debLog[p].n = debLog[q].n => p = q
  /\ \A t \in inpTasks : t.kind = "save" =>
       \E p \in Events("fire") :
         debLog[p].n = t.n /\ debLog[p].row = t.row /\ debLog[p].patch = t.patch
  /\ \A i \in Events("schedule"), j \in Events("schedule") :
       i = PrevOf(debLog[j].row, j) => \A p \in Events("fire") : debLog[p].n # debLog[i].n

\* Row 1 is edited, then row 2, then row 1 again with another value; the
\* timer of row 1 has just fired with the second value while the timer of
\* row 2 is still pending.
C20_Witness ==
  /\ Len(debLog) = 4
  /\ debLog[1].act = "schedule" /\ debLog[1].row = 1
  /\ debLog[2].act = "schedule" /\ debLog[2].row = 2
  /\ debLog[3].act = "schedule" /\ debLog[3].row = 1 /\ debLog[3].patch # debLog[1].patch
  /\ debLog[4].act = "fire" /\ debLog[4].row = 1 /\ debLog[4].patch = debLog[3].patch
  /\ timers[2] # NoTimer /\ timers[1] = NoTimer
  /\ \E t \in inpTasks : t.kind = "save" /\ t.patch = debLog[3].patch

\* The listWeek answers handed to refresh() by a step.
Delivered == {f \in fetches : f \notin fetches' /\ f.pc \in {"fetched", "fetchFailed"}}

\* C21: refreshSafe is a no-op offline and swallows transient errors. A call
\* of refreshSafe made while the device is offline issues no fetch and leaves
\* the items cache and the alerts as they were; when a fetch fails with a
\* transient error, the step that hands the error to refresh leaves the items
\* cache unchanged and raises no alert.
C21_RefreshSafeQuiet ==
  [][/\ syncLog'.act = "refreshSafe" /\ nSync' = nSync + 1 /\ ~online =>
          fetches' = fetches /\ items' = items /\ alerts' = alerts
     /\ \A f \in Delivered : f.pc = "fetchFailed" /\ f.out = "transient" =>
          items' = items /\ alerts' = alerts]_vars

\* A change notification has just called refreshSafe on a device that is
\* offline, after an earlier fetch had filled the cache: nothing was fetched.
C21_Witness ==
  /\ syncLog.act = "refreshSafe" /\ ~online
  /\ items # {} /\ alerts = 0
  /\ \A f \in fetches : f.n # syncLog.n

\* C22: the rejoin protocol is guarded by the busy flag. At most one rejoin
\* run is in progress, and the flag is set while one is; a trigger that reaches
\* rejoin while the flag is set starts no run, leaves the subscriptions and
\* unsubRef as they are, issues no fetch and leaves the flag set.
C22_RejoinBusy ==
  [][/\ Cardinality(runs') <= 1
     /\ runs' # {} => rejoinBusyRef'
     /\ syncLog'.act \in {"rejoin", "online"} /\ syncLog'.inst # 0 /\ rejoinBusyRef =>
          /\ syncLog'.out \in {"busy", "dead"}
          /\ runs' = runs /\ subs' = subs /\ unsubRef' = unsubRef
          /\ fetches' = fetches /\ rejoinBusyRef' /\ busyTimer' = busyTimer]_vars

\* A focus, visibility, signed-in or auth event has just reached rejoin while
\* the run started by an earlier trigger is still in progress.
C22_Witness ==
  /\ syncLog.act = "rejoin" /\ syncLog.out = "busy"
  /\ Cardinality(runs) = 1
  /\ \A r \in runs : r.n < syncLog.n

\* C23: every rejoin run takes its steps in one order, whatever fails. A run
\* waiting for its settle delay has taken no step; a run waiting for the
\* session refresh has only settled; once the session refresh is over,
\* whether it, disconnect, connect or the resubscription failed or not, the
\* run has gone through settle, session refresh, disconnect, connect,
\* resubscribe and the call of refreshSafe, in that order and once each.
C23_RejoinOrder ==
  /\ \A r \in runs :
       /\ r.pc = "settle" => r.trace = <<>>
       /\ r.pc = "session" => r.trace = <<"settle">>
       /\ r.pc = "refreshSafe" => r.trace = RejoinOrder
       /\ r.pc \in {"settle", "session", "refreshSafe"}
  /\ syncLog.act \in {"rejoinDone", "rejoinRefresh"} => syncLog.trace = RejoinOrder

\* A run whose session refresh, disconnect, connect and resubscription all
\* failed has just called refreshSafe, which is fetching.
C23_Witness ==
  /\ syncLog.act = "rejoinRefresh"
  /\ syncLog.failed = {"session", "disconnect", "connect", "resubscribe"}
  /\ syncLog.trace = RejoinOrder
  /\ \E f \in fetches : f.src = "rejoin" /\ f.n = syncLog.n /\ f.pc = "fetching"

\* The device has just come back online with a rejoin listener attached.
OnlineFired == syncLog.act = "online" /\ syncLog.inst # 0

\* C24 as stated: whenever online fires exactly one rejoin run is in
\* progress, and whenever a rejoin run of the live instance completes the
\* items cache equals the remote state of the visible week.
C24_FreshAfterOnline ==
  /\ OnlineFired => Cardinality(runs) = 1
  /\ syncLog.act = "rejoinDone" /\ syncLog.inst = Live =>
       items = ListWeekOf(store, weekStart)

\* C24, amended: offline, a refreshSafe call issues no fetch and a rejoin
\* trigger starts no run and touches neither flag nor subscriptions; when
\* online fires with the busy flag clear exactly one run starts, and further
\* triggers start none while the flag is set; a listWeek answer is the
\* store's content for the fetched week at the time it is served; and when
\* the run completes with its fetch delivered, the cache is that answer.
C24_OnlineRejoin ==
  [][/\ syncLog'.act \in {"refreshSafe", "rejoin"} /\ nSync' = nSync + 1 /\ ~online =>
          /\ fetches' = fetches /\ runs' = runs /\ subs' = subs
          /\ rejoinBusyRef' = rejoinBusyRef /\ items' = items
     /\ syncLog'.act = "online" /\ syncLog'.inst # 0 /\ ~rejoinBusyRef =>
          /\ Cardinality(runs') = 1 /\ runs = {} /\ rejoinBusyRef'
          /\ \A r \in runs' : r.by = "online" /\ r.pc = "settle"
     /\ syncLog'.act \in {"rejoin", "online"} /\ syncLog'.inst # 0 /\ rejoinBusyRef =>
          runs' = runs
     /\ \A f \in fetches' : f.pc = "fetched" /\ f \notin fetches =>
          f.snap = ListWeekOf(store, f.week)
     /\ syncLog'.act = "rejoinDone" /\ syncLog'.out = "fetched" /\ Live # 0 =>
          \E f \in Delivered : f.src = "rejoin" /\ items' = f.snap
                               /\ itemsFrom' = [inst |-> f.inst, week |-> f.week]]_vars

\* A toggle was pending when the device went offline and is still pending:
\* the run started by the online event has just completed, and the cache
\* holds the visible week as the store has it.
C24_Witness ==
  /\ syncLog.act = "rejoinDone" /\ syncLog.out = "fetched" /\ syncLog.by = "online"
  /\ mut.pc = "write"
  /\ syncLog.inst = Live
  /\ items = ListWeekOf(store, weekStart)

\* The subscriptions that are open.
ActiveSubs == {k \in DOMAIN subs : subs[k].active}

\* C25: after teardown nothing of a disposed instance stays active: every
\* open subscription was created by, and calls back into, the live instance,
\* and a disposed instance holds neither poll timer nor listeners.
C25_NothingOfDisposed ==
  /\ \A k \in ActiveSubs : subs[k].owner = Live /\ Live # 0
  /\ \A i \in DOMAIN insts : ~insts[i].alive => ~insts[i].poll /\ ~insts[i].listening

C27_NoWriteAfterTeardown ==
  [][\A f \in fetches \ fetches' :
       f.inst # 0 /\ ~insts[f.inst].alive => items' = items /\ itemsFrom' = itemsFrom]_vars

\* C28: once the cache holds a snapshot fetched for the visible week, no
\* completing fetch replaces it by a snapshot fetched for another week, in
\* whatever order the answers arrive; so with the visible week's fetch
\* delivered and nothing outstanding the cache is a snapshot of that week.
C28_CacheOfVisibleWeek ==
  [][itemsFrom.inst # 0 /\ itemsFrom.week = weekStart /\ weekStart' = weekStart =>
       itemsFrom'.week = weekStart]_vars

\* C29: a mutation handler never assigns the items cache: the cache is the
\* same before and after every step of a handler up to and including the
\* answers to its writes, whether they succeed or fail; it changes only in
\* the step in which a refresh receives listWeek's answer, and then it
\* becomes that answer, which is the whole list the store held when it
\* answered.
C29_CacheOnlyByRefresh ==
  [][/\ items' # items =>
          /\ boardLog'.act = "delivered" /\ boardLog'.out = "fetched"
          /\ \E t \in tasks \ tasks' : t.pc = "fetched" /\ items' = t.snap
     /\ boardLog'.act \in {"written", "writeFailed", "issue", "return", "reject", "throw"}
          /\ boardLog' # boardLog => items' = items
     /\ \A t \in tasks' \ tasks : t.pc = "fetched" => t.snap = ListWeek(store)]_vars

\* A write has just succeeded and the cache does not show it yet.
C29_Witness ==
  /\ boardLog.act = "written" /\ boardLog.out = "refresh"
  /\ items # ListWeek(store)

\* C30: when a write of a handler run answers, one of three things happens.
\* It failed: the run ends, no further write and no refresh follow, and the
\* error went through showErr. It succeeded and the run has another write
\* (the second of an ord swap): that write is issued and no refresh yet. It
\* succeeded and was the run's last: refresh() is called in the same turn,
\* and fetches the list unless it returns at the offline check. No run's
\* refresh starts at any other moment.
C30_RefreshAfterLastWrite ==
  [][/\ \A t \in tasks \ tasks' : t.pc = "write" =>
          \/ /\ boardLog'.act = "writeFailed"
             /\ store' = store
             /\ \A u \in tasks' : u.seq # t.seq
             /\ alerts' = ShowErr(boardLog'.out)
          \/ /\ boardLog'.act = "written" /\ boardLog'.out = "more"
             /\ Len(t.writes) = 2
             /\ store' = ApplyWrite(Head(t.writes), store)
             /\ \E u \in tasks' : u.seq = t.seq /\ u.pc = "write" /\ u.writes = Tail(t.writes)
             /\ alerts' = alerts
          \/ /\ boardLog'.act = "written" /\ boardLog'.out \in {"refresh", "norefresh"}
             /\ Len(t.writes) = 1
             /\ store' = ApplyWrite(Head(t.writes), store)
             /\ (boardLog'.out = "refresh") = (online /\ centerId # "null")
             /\ IF boardLog'.out = "refresh"
                  THEN \E u \in tasks' : u.seq = t.seq /\ u.pc = "fetching"
                  ELSE \A u \in tasks' : u.seq # t.seq
             /\ alerts' = alerts
     /\ \A u \in tasks' \ tasks : u.pc = "fetching" =>
          \E t \in tasks \ tasks' : t.seq = u.seq /\ t.pc = "write" /\ Len(t.writes) = 1
                                    /\ boardLog'.act = "written"]_vars

\* The second write of an ord swap has succeeded and the refresh of that
\* run is fetching.
C30_Witness ==
  /\ boardLog.act = "written" /\ boardLog.out = "refresh"
  /\ boardLog.op \in {"moveOneUp", "moveOneDown"}
  /\ \E t \in tasks : t.seq = boardLog.seq /\ t.pc = "fetching"
  /\ hist[boardLog.seq].res = "ok"

ClassifiedTransient(x) == x.e = "transient" \/ ~x.online

\* When showErr had last warned before its k-th call (0: never).
LastWarnBefore(k) ==
  LET W == {j \in 1..(k - 1) : j \in DOMAIN errLog /\ errLog[j].console = "warn"}
  IN  IF W = {} THEN 0 ELSE errLog[CHOOSE j \in W : \A h \in W : h <= j].at

\* C33: a call of showErr with an error classified transient raises no alert,
\* and writes a console warning exactly when more than 5000 ms have passed
\* since the last warning written (a dropped one does not count), so two
\* warnings are always more than 5000 ms apart; a call with any other error
\* writes it to console.error and raises exactly one alert.
C33_ShowErrClasses ==
  /\ \A k \in DOMAIN errLog :
       LET x == errLog[k] IN
       IF ClassifiedTransient(x)
         THEN /\ x.alerts = 0
              /\ x.console \in {"warn", "none"}
              /\ (x.console = "warn") = (x.at - LastWarnBefore(k) > NetWarnWindow)
         ELSE x.alerts = 1 /\ x.console = "error"
  /\ \A j, k \in DOMAIN errLog :
       j < k /\ errLog[j].console = "warn" /\ errLog[k].console = "warn" =>
         errLog[k].at - errLog[j].at > NetWarnWindow
  /\ lastNetWarnAt = LastWarnBefore(Len(errLog) + 1)
  /\ alerts = Cardinality({k \in DOMAIN errLog : ~ClassifiedTransient(errLog[k])})

\* Three transient errors: the first warned of, the second exactly 5000 ms
\* later dropped, the third 7500 ms after the first warned of again, which
\* it would not be had the second moved the window.
C33_Witness ==
  /\ Len(errLog) = 3
  /\ \A k \in 1..3 : ClassifiedTransient(errLog[k])
  /\ errLog[1].console = "warn"
  /\ errLog[2].console = "none" /\ errLog[2].at = errLog[1].at + NetWarnWindow
  /\ errLog[3].console = "warn" /\ errLog[3].at - errLog[2].at < NetWarnWindow
  /\ alerts = 0

\* The outcomes of the attempts of the retry call that failed.
FailedCalls == {k \in DOMAIN retryRun.calls : retryRun.calls[k] # "ok"}

\* C35: retry(fn, tries, baseMs) has at most one fn() pending and has called
\* fn at most `tries` times; once it has returned, the last call is the only
\* successful one and its result is the one returned; once it has thrown,
\* fn was called `tries` times, every call failed, and the error thrown is
\* the one of the last call; before call k + 1 it has waited baseMs * 1.6^
\* (k - 1) after failed call k; and every call of retry ends, returning or
\* throwing, when every fn() settles.
C35_RetryBounded ==
  /\ [](LET r == retryRun
            started == Len(r.calls) + (IF r.pc = "calling" THEN 1 ELSE 0)
        IN  /\ started <= r.tries
            /\ r.pc = "calling" => started = r.i + 1
            /\ \A k \in DOMAIN r.calls : r.calls[k] = "ok" => k = Len(r.calls) /\ r.pc = "returned"
            /\ r.pc = "returned" =>
                 /\ r.calls # <<>> /\ r.calls[Len(r.calls)] = "ok"
                 /\ r.result = Len(r.calls)
            /\ r.pc = "threw" =>
                 /\ Len(r.calls) = r.tries /\ FailedCalls = DOMAIN r.calls
                 /\ r.tries > 0 => r.lastErr = [kind |-> r.calls[r.tries], attempt |-> r.tries]
            /\ Len(r.waits) = Cardinality(FailedCalls)
            /\ \A k \in DOMAIN r.waits : r.waits[k] * 10^(k - 1) <= r.baseMs * 16^(k - 1)
                                         /\ (r.waits[k] + 1) * 10^(k - 1) > r.baseMs * 16^(k - 1))
  /\ (retryRun.pc # "idle") ~> (retryRun.pc \in {"returned", "threw"})

\* A call with tries = 3 whose first two attempts failed differently and
\* whose third has returned.
C35_Witness ==
  /\ retryRun.pc = "returned" /\ retryRun.tries = 3 /\ retryRun.result = 3
  /\ retryRun.calls = <<"transient", "fatal", "ok">>
  /\ retryRun.waits = <<500, 800>>
  /\ retryRun.lastErr = [kind |-> "fatal", attempt |-> 2]

\* A call with tries = 3 has thrown the error of its third attempt.
C35_WitnessThrown ==
  /\ retryRun.pc = "threw" /\ retryRun.tries = 3
  /\ retryRun.calls = <<"fatal", "fatal", "transient">>
  /\ retryRun.lastErr = [kind |-> "transient", attempt |-> 3]

\* C34: whenever the centre id is set, so that the Board is rendered once the
\* role is known, the room list and the procedure list it is rendered with
\* are both non-empty, also while the load is in progress and after a load
\* that failed part-way.
C34_GridNeverEmpty ==
  centerId # "null" => rows # <<>> /\ procs # <<>>

\* C36: the busy flag is cleared only by the timer a finished run has set,
\* so never while a run is in progress; while the flag is set, a trigger
\* starts nothing, also during the delay after the run; once it is clear, a
\* trigger reaching a live instance online starts a run; and a flag that is
\* set is always cleared later, whichever steps of the run failed.
C36_BusyReleased ==
  /\ [][/\ rejoinBusyRef /\ ~rejoinBusyRef' => runs = {} /\ busyTimer /\ ~busyTimer'
        /\ busyTimer' /\ ~busyTimer => runs' = {} /\ runs # {} /\ rejoinBusyRef'
        /\ syncLog'.act = "rejoin" /\ nSync' = nSync + 1 =>
             IF rejoinBusyRef THEN runs' = runs /\ rejoinBusyRef'
             ELSE insts[syncLog'.inst].alive /\ online =>
                    Cardinality(runs') = 1 /\ runs = {} /\ rejoinBusyRef']_vars
  /\ rejoinBusyRef ~> ~rejoinBusyRef

\* A run has ended and its release timer is pending: a trigger has just
\* been absorbed.
C36_Witness ==
  /\ syncLog.act = "rejoin" /\ syncLog.out = "busy"
  /\ runs = {} /\ busyTimer /\ rejoinBusyRef
  /\ insts[syncLog.inst].alive /\ online

\* The last auth event the listener received carried no session.
SignedOut ==
  /\ Len(resolutions) > 1
  /\ resolutions[Len(resolutions)].kind = "event"
  /\ ~resolutions[Len(resolutions)].hasUser

\* C37: once an auth event without session has made the role unknown, the
\* role leaves unknown only in the step that handles a session again: no
\* role lookup of an earlier event and no upgrade ladder writes viewer or
\* editor in between.
C37_SignedOutStaysUnknown ==
  [][SignedOut /\ role = "unknown" /\ role' # "unknown" =>
       authLog'.act \in {"event", "boot"} /\ authLog'.hasUser]_vars

\* C38: on one client at most one toggleInpatient per item is in progress
\* and the item's marker is set exactly while it is; a call for an item
\* whose marker is set returns without a request; a call for an item whose
\* marker is clear starts its request whatever the other item's marker is;
\* and a marker that is set is cleared later on every path.
C38_OneTogglePerItem ==
  /\ [](\A it \in TwoItems : /\ Cardinality(TogglesOf(1, it)) <= 1
                             /\ (it \in inFlight[1]) = (TogglesOf(1, it) # {}))
  /\ [][nInp' = nInp + 1 =>
          LET it == inpLog'.item IN
          IF it \in inFlight[1]
            THEN inpLog'.act = "busy" /\ inpTasks' = inpTasks /\ inp' = inp
                 /\ inFlight' = inFlight
            ELSE /\ inpLog'.act = "toggle"
                 /\ \E t \in inpTasks' \ inpTasks : t.item = it /\ t.pc \in {"insert", "update"}
                 /\ inFlight'[1] = inFlight[1] \cup {it}]_vars
  /\ \A it \in TwoItems : (it \in inFlight[1]) ~> (it \notin inFlight[1])

\* Item 2 is toggled while the toggle of item 1 is in flight, and a second
\* call for item 1 has returned at the guard.
C38_Witness ==
  /\ inpLog.act = "busy" /\ inpLog.item = 1
  /\ inFlight[1] = {1, 2}
  /\ Cardinality(TogglesOf(1, 1)) = 1 /\ Cardinality(TogglesOf(1, 2)) = 1

\* The timer firings of a row.
FiresOf(r) == {p \in Events("fire") : debLog[p].row = r}

\* C39: a burst of schedules on one row within one debounce window keeps
\* every edited field. When the only timer firing of a row is the last event
\* of the row and its write has just succeeded, the stored record of the row
\* and the local one agree on each field that a schedule of the row edited.
C39_BurstKeepsFields ==
  \A r \in RowIds :
    /\ Cardinality(FiresOf(r)) = 1
    /\ PrevOf(r, Len(debLog) + 1) \in FiresOf(r)
    /\ inpLog.act = "saveDone" /\ inpLog.item = r /\ inpLog.out = "ok"
    => \A i \in Events("schedule") : debLog[i].row = r =>
         \A x \in inp, y \in inpList[1] :
           x.id = r /\ y.id = r =>
             FieldOf(x, debLog[i].patch.f) = FieldOf(y, debLog[i].patch.f)

\* The ord values of the cards C, counted with multiplicity, are those of D.
SameOrds(C, D) ==
  \A o \in {i.ord : i \in C \cup D} :
    Cardinality({i \in C : i.ord = o}) = Cardinality({i \in D : i.ord = o})

\* Two cards of the cell of card `id` in S have the same ord.
DuplicateOrd(S, id) == ~DistinctOrds(CellOf(S, ItemOf(S, id)))

\* The swap run t has had its first write answered and awaits the second.
BetweenWrites(t) == t.pc = "write" /\ Len(t.writes) = 1

\* The cache that run k started from was listWeek of the store.
FreshRun(k) == hist[k].cache = ListWeek(hist[k].pre)

\* The order of the two writes of a swap: the store changes only by the
\* pending write of a suspended run, which is on the moved card exactly when
\* both writes are still to be made.
SwapWriteOrder ==
  [][store' # store =>
       \E t \in tasks :
         /\ t.pc = "write"
         /\ store' = ApplyWrite(Head(t.writes), store)
         /\ boardLog'.act = "written" /\ boardLog'.seq = t.seq
         /\ (Head(t.writes).id = t.id) = (Len(t.writes) = 2)]_vars

\* A swap whose first write failed: the store is as it was and the run is
\* over, with neither a second write nor a refresh.
SwapFirstFails ==
  [][\A t \in tasks \ tasks' :
       t.pc = "write" /\ Len(t.writes) = 2 /\ boardLog'.act = "writeFailed" =>
         /\ store' = store
         /\ \A u \in tasks' : u.seq # t.seq
         /\ hist'[t.seq].res = "failed" /\ hist'[t.seq].post = hist'[t.seq].pre]_vars

\* The ords of the cell of the card of run k, before and after the run.
OrdsKept(k) ==
  SameOrds(CellOf(hist[k].pre, ItemOf(hist[k].pre, hist[k].id)),
           CellOf(hist[k].post, ItemOf(hist[k].post, hist[k].id)))

\* C40 as stated: the moved card is written first and the neighbour second,
\* the second only after the first succeeded; a failing first write leaves
\* the store unchanged and ends the run; between the two writes the cell
\* holds a duplicate ord; and a swap whose two writes succeeded leaves the
\* multiset of the cell's ords as it was.
C40_SwapInOrder ==
  /\ SwapWriteOrder
  /\ SwapFirstFails
  /\ [](\A t \in tasks : BetweenWrites(t) => DuplicateOrd(store, t.id))
  /\ [](\A k \in DOMAIN hist : hist[k].res = "ok" => OrdsKept(k))

\* C40 for swaps started from a fresh cache: the order of the writes and the
\* failing first write as above; between the two writes of a swap that began
\* with the cache equal to the store the cell holds a duplicate ord, and such
\* a swap, when both writes succeeded, leaves the multiset of the cell's ords
\* as it was.
C40_SwapInOrderFresh ==
  /\ SwapWriteOrder
  /\ SwapFirstFails
  /\ [](\A t \in tasks : BetweenWrites(t) /\ FreshRun(t.seq) => DuplicateOrd(store, t.id))
  /\ [](\A k \in DOMAIN hist : hist[k].res = "ok" /\ FreshRun(k) => OrdsKept(k))

\* moveOneUp(Y) from a fresh cache has had its first write answered: Y and X
\* both have ord 1 and the write of X is pending.
C40_Witness ==
  /\ Len(hist) = 1 /\ hist[1].op = "moveOneUp" /\ hist[1].id = ItemY.id /\ FreshRun(1)
  /\ \E t \in tasks : BetweenWrites(t) /\ t.writes[1].id = ItemX.id
  /\ [ItemY EXCEPT !.ord = 1] \in store /\ ItemX \in store

====
